---- MODULE Spec2Model ----
(***************************************************************************)
(* Differentiable Gaussian-splat rasterisation pipeline of brush.         *)
(*                                                                         *)
(* The host-side orchestration (render_gaussians and                       *)
(* RenderBackwards::backward in src/splat_render/render.rs) is modelled    *)
(* statement by statement.  The GPU kernels, prefix_sum, radix_argsort and *)
(* DimCheck are not part of the available source tree; they are modelled   *)
(* from the design document and marked as such where they are defined.     *)
(*                                                                         *)
(* Floating point data is abstracted: a splat is given by its projected    *)
(* integer screen position, radius, depth, opacity and colour; colours and *)
(* transmittance are fixed-point integers.                                 *)
(***************************************************************************)
EXTENDS Integers, Sequences, FiniteSets, TLC

(***************************************************************************)
(* Bounds of the model.                                                    *)
(***************************************************************************)
\* largest camera width / height explored
MaxDim == 3
\* largest number of splats explored
MaxN == 2

(***************************************************************************)
(* Program constants.                                                      *)
(***************************************************************************)
\* generated_bindings::helpers::TILE_WIDTH (render.rs:117); the value lives
\* in generated shader bindings, the model uses a small tile.
TILE_WIDTH == 2
\* intersection keys are u32 (render.rs:166): tile id in the high bits,
\* depth in the low DEPTH_BITS bits.
DEPTH_BITS == 16
\* bits per radix-sort digit and width of the key
RADIX_BITS == 8
KEY_BITS == 32
\* value found in freshly reserved memory when it is not zero (lib.rs:152)
NOISE == 12345
\* fixed point one for opacity / transmittance
ONE == 4
\* early-exit threshold of the rasteriser, in units of 1/(ONE*ONE)
T_EPS == 2

Pow2(n) == 2 ^ n

Inputs == {"means", "scales", "quats", "colors", "opacity"}

Min(a, b) == IF a < b THEN a ELSE b
Max(a, b) == IF a < b THEN b ELSE a
Clamp(v, lo, hi) == Max(lo, Min(v, hi))

RECURSIVE SumSeq(_)
SumSeq(s) == IF s = <<>> THEN 0 ELSE Head(s) + SumSeq(Tail(s))

\* a buffer of n elements, every element holding v
Filled(n, v) == [i \in 1..n |-> v]

\* the elements of a sequence
Range(q) == { q[i] : i \in DOMAIN q }

(***************************************************************************)
(* The splats a caller may pass in, after abstraction of the float data.   *)
(***************************************************************************)
SplatChoices ==
  { [xy |-> <<0, 0>>, radius |-> 0, depth |-> 1, opacity |-> 2, color |-> 1],
    [xy |-> <<0, 0>>, radius |-> 1, depth |-> 1, opacity |-> 3, color |-> 1],
    [xy |-> <<3, 1>>, radius |-> 1, depth |-> 1, opacity |-> 2, color |-> 2],
    [xy |-> <<1, 1>>, radius |-> 2, depth |-> 2, opacity |-> 3, color |-> 3],
    [xy |-> <<1, 1>>, radius |-> 1, depth |-> 0, opacity |-> 2, color |-> 2] }

SplatSeqs == UNION { [1..n -> SplatChoices] : n \in 0..MaxN }

Cameras == [width : 0..MaxDim, height : 0..MaxDim]

Backgrounds == {0, 5}

FreshValues == {0, NOISE}

\* shapes of the five input tensors a caller may pass for n splats
ShapeChoices(n) ==
  { [means |-> <<n, 4>>, scales |-> <<n, 4>>, quats |-> <<n, 4>>,
     colors |-> <<n, 4>>, opacity |-> <<n>>],
    [means |-> <<n, 3>>, scales |-> <<n, 3>>, quats |-> <<n, 4>>,
     colors |-> <<n, 3>>, opacity |-> <<n>>],
    [means |-> <<n, 4>>, scales |-> <<n + 1, 4>>, quats |-> <<n, 4>>,
     colors |-> <<n, 4>>, opacity |-> <<n>>],
    [means |-> <<n, 4>>, scales |-> <<n, 4>>, quats |-> <<n, 4>>,
     colors |-> <<n, 4>>, opacity |-> <<n + 1>>] }

(***************************************************************************)
(* State.                                                                  *)
(***************************************************************************)
VARIABLES
  pc,          \* position of the host thread in the forward / backward call
  camera,      \* camera.width, camera.height
  splats,      \* contents of the five input tensors, per splat
  dims,        \* shapes of the five input tensors
  background,  \* caller supplied background colour
  prep_nodes,  \* OpsKind of the prepared operation: "Tracked" / "UnTracked"
  fresh,       \* what freshly reserved GPU memory contains
  fwd,         \* buffers and values of the forward call
  aux,         \* the returned Aux record, NoAux before the call returns
  state,       \* GaussianBackwardState kept for backward, NoState if absent
  ckpt,        \* checkpoints taken by forward / retrieved by backward
  bwd,         \* buffers of the backward call
  grads,       \* gradient registrations made by backward, in order
  parents,     \* ops.parents as read by backward: the tracked inputs
  log,         \* GPU work issued so far (allocations, dispatches, readbacks)
  raster,      \* the Rasterize dispatch in flight, thread by thread
  calls,       \* buffer handles of several calls in flight at once
  sorter,      \* the radix sort in flight, digit pass by digit pass
  loader,      \* load_splat_from_ply: the stream reading a PLY file
  app,         \* brush-app: App, its AppContext and the process channel
  train,       \* train-2d: training task, channel and window
  cube         \* calc_cube_count: a call with its arguments and result

inputs == <<camera, splats, dims, background, prep_nodes, fresh>>
\* the state of the finer-grained views: untouched where a dispatch is
\* taken as one step and a single call is followed
fine == <<raster, calls, sorter, loader, app, train, cube>>
vars == <<pc, camera, splats, dims, background, prep_nodes, fresh,
          fwd, aux, state, ckpt, bwd, grads, parents, log, raster, calls,
          sorter, loader, app, train, cube>>

NoTensor == [shape |-> <<>>, data |-> <<>>]

\* nothing returned yet / no backward state kept
NoAux == [returned |-> FALSE]
NoState == [kept |-> FALSE]

\* no Rasterize dispatch in flight / no calls followed by handle
NoRaster == [pending |-> {}, oob |-> "zero"]
NoCalls == [next_handle |-> 0, call |-> <<>>]
NoSort == [pass |-> 0, kv |-> <<<<>>, <<>>>>]
NoLoad == [pc |-> "idle"]
NoApp == [pc |-> "idle"]
NoTrain == [pc |-> "idle"]
NoCube == [pc |-> "idle"]

FwdInit ==
  [ num_points |-> 0, tile_bounds |-> <<0, 0>>,
    radii |-> NoTensor, depths |-> NoTensor, xys |-> NoTensor,
    cov2ds |-> NoTensor, num_tiles_hit |-> NoTensor,
    cum_tiles_hit |-> NoTensor, num_intersects |-> 0,
    isect_ids_unsorted |-> NoTensor, gaussian_ids_unsorted |-> NoTensor,
    isect_ids_sorted |-> NoTensor, gaussian_ids_sorted |-> NoTensor,
    tile_bins |-> NoTensor, out_img |-> NoTensor, final_index |-> NoTensor ]

BwdInit ==
  [ num_points |-> 0,
    v_xy |-> NoTensor, v_conic |-> NoTensor, v_colors |-> NoTensor,
    v_opacity |-> NoTensor, v_means |-> NoTensor, v_scales |-> NoTensor,
    v_quats |-> NoTensor ]

Init ==
  /\ pc = "start"
  /\ camera \in Cameras
  /\ splats \in SplatSeqs
  /\ dims \in ShapeChoices(Len(splats))
  /\ background \in Backgrounds
  /\ prep_nodes \in {"Tracked", "UnTracked"}
  /\ fresh \in FreshValues
  /\ fwd = FwdInit
  /\ aux = NoAux
  /\ state = NoState
  /\ ckpt = [taken |-> <<>>, retrieved |-> <<>>]
  /\ bwd = BwdInit
  /\ grads = <<>>
  /\ parents = {}
  /\ log = <<>>
  /\ raster = NoRaster
  /\ calls = NoCalls
  /\ sorter = NoSort
  /\ loader = NoLoad
  /\ app = NoApp
  /\ train = NoTrain
  /\ cube = NoCube

(***************************************************************************)
(* create_tensor / create_buffer: reserve memory for a shape.  The memory  *)
(* is not initialised (client.empty); its contents are whatever was there. *)
(***************************************************************************)
create_tensor(shape, n) == [shape |-> shape, data |-> Filled(n, fresh)]

RECURSIVE num_elements(_)
num_elements(shape) ==
  IF shape = <<>> THEN 1 ELSE Head(shape) * num_elements(Tail(shape))

\* scalar elements held by one entry of t.data
EntrySize(t) ==
  IF Len(t.data) = 0 THEN 1 ELSE num_elements(t.shape) \div Len(t.data)

\* variant: the last thread of the dispatch returns without clearing
Zero_short(t, count) ==
  [t EXCEPT !.data = [i \in DOMAIN t.data |->
                        IF i * EntrySize(t) < count THEN 0 ELSE t.data[i]]]

\* the Zero kernel dispatched over count threads: thread k clears scalar
\* element k of the buffer
Zero(t, count) ==
  [t EXCEPT !.data = [i \in DOMAIN t.data |->
                        IF i * EntrySize(t) <= count THEN 0 ELSE t.data[i]]]


(***************************************************************************)
(* DimCheck (crate::splat_render::dim_check, not in the source tree):      *)
(* check_dims compares a tensor's shape with a pattern of fixed sizes and  *)
(* named sizes; a name is bound by its first use and must match later.     *)
(* A mismatch panics.                                                      *)
(***************************************************************************)
Named(nm) == [name |-> nm, size |-> 0]
Fixed(k) == [name |-> "", size |-> k]

DimCheckNew == [ok |-> TRUE, bind |-> [nm \in {"D"} |-> -1]]

check_dims(b, shape, pat) ==
  IF ~b.ok \/ Len(shape) # Len(pat)
  THEN [b EXCEPT !.ok = FALSE]
  ELSE LET fixedOk == \A i \in 1..Len(pat) :
                        pat[i].name = "" => shape[i] = pat[i].size
           namedOk == \A i \in 1..Len(pat) :
                        (pat[i].name # "" /\ b.bind[pat[i].name] # -1)
                          => shape[i] = b.bind[pat[i].name]
           newbind == [nm \in DOMAIN b.bind |->
                         IF b.bind[nm] = -1 /\ \E i \in 1..Len(pat) : pat[i].name = nm
                         THEN shape[CHOOSE i \in 1..Len(pat) : pat[i].name = nm]
                         ELSE b.bind[nm]]
       IN  [ok |-> fixedOk /\ namedOk, bind |-> newbind]

\* render.rs:107-112
ForwardDimCheck(d) ==
  check_dims(
    check_dims(
      check_dims(
        check_dims(
          check_dims(DimCheckNew, d.means, <<Named("D"), Fixed(4)>>),
          d.scales, <<Named("D"), Fixed(4)>>),
        d.quats, <<Named("D"), Fixed(4)>>),
      d.colors, <<Named("D"), Fixed(4)>>),
    d.opacity, <<Named("D")>>)

(***************************************************************************)
(* Tile grid, render.rs:116-122.                                           *)
(***************************************************************************)
\* variant: the quotient rounded down
div_ceil_down(a, b) == a \div b

\* u32::div_ceil
div_ceil(a, b) == IF a % b > 0 THEN (a \div b) + 1 ELSE a \div b

img_size(cam) == <<cam.width, cam.height>>

tile_bounds(cam) ==
  << div_ceil(cam.height, TILE_WIDTH), div_ceil(cam.height, TILE_WIDTH) >>

(***************************************************************************)
(* ProjectSplats kernel (shader not in the source tree; design document    *)
(* section 4.1).  One thread per splat.  A splat behind the camera or with *)
(* zero radius is culled: radius 0 and tile-hit count 0.  Otherwise its    *)
(* bounding box is clamped to the tile grid handed in by the host and the  *)
(* number of tiles it touches is counted.                                  *)
(***************************************************************************)
TileMin(s, tb) ==
  << Clamp((s.xy[1] - s.radius) \div TILE_WIDTH, 0, tb[1]),
     Clamp((s.xy[2] - s.radius) \div TILE_WIDTH, 0, tb[2]) >>

TileMax(s, tb) ==
  << Clamp(((s.xy[1] + s.radius) \div TILE_WIDTH) + 1, 0, tb[1]),
     Clamp(((s.xy[2] + s.radius) \div TILE_WIDTH) + 1, 0, tb[2]) >>

TileArea(s, tb) ==
  (TileMax(s, tb)[1] - TileMin(s, tb)[1]) * (TileMax(s, tb)[2] - TileMin(s, tb)[2])

TilesHit(s, tb) ==
  IF s.radius = 0 \/ s.depth <= 0 THEN 0 ELSE TileArea(s, tb)

ProjectSplats(f, sp, tb) ==
  [f EXCEPT
     !.radii.data = [i \in DOMAIN @ |->
                       IF TilesHit(sp[i], tb) > 0 THEN sp[i].radius ELSE 0],
     !.depths.data = [i \in DOMAIN @ |-> sp[i].depth],
     !.xys.data = [i \in DOMAIN @ |-> sp[i].xy],
     !.cov2ds.data = [i \in DOMAIN @ |-> sp[i].radius],
     !.num_tiles_hit.data = [i \in DOMAIN @ |-> TilesHit(sp[i], tb)]]

(***************************************************************************)
(* prefix_sum (super::prefix_sum, not in the source tree; design document  *)
(* section 4.2): block-wise scan with a carry of the totals of the earlier *)
(* blocks.  The result has the length of the input and its last element is *)
(* the grand total, which is what render.rs:159 reads.                     *)
(***************************************************************************)
THREADS_PER_GROUP == 2

BlockStart(i) == ((i - 1) \div THREADS_PER_GROUP) * THREADS_PER_GROUP + 1

RECURSIVE RangeSum(_, _, _)
RangeSum(d, lo, hi) == IF lo > hi THEN 0 ELSE d[lo] + RangeSum(d, lo + 1, hi)

\* scan inside the block of element i
BlockScan(d, i) == RangeSum(d, BlockStart(i), i)

\* total of block k (elements past the end count as zero)
BlockTotal(d, k) ==
  RangeSum(d, (k - 1) * THREADS_PER_GROUP + 1,
           Min(k * THREADS_PER_GROUP, Len(d)))

\* variant: the fix-up adds the total of the block before only
Carry_previous(d, k) == IF k = 0 THEN 0 ELSE BlockTotal(d, k)

RECURSIVE Carry(_, _)
Carry(d, k) == IF k = 0 THEN 0 ELSE BlockTotal(d, k) + Carry(d, k - 1)

prefix_sum(t) ==
  [shape |-> t.shape,
   data |-> [i \in DOMAIN t.data |->
               BlockScan(t.data, i) + Carry(t.data, (i - 1) \div THREADS_PER_GROUP)]]

(***************************************************************************)
(* Readback of the scan total, render.rs:157-163.                          *)
(***************************************************************************)
\* variant: the slice taken at the front of the scan
last_elem_range_first(n) == <<0, 1>>

\* the range handed to int_slice
last_elem_range(n) == <<n - 1, n>>

\* the elements of the range; a range that does not lie inside the tensor
\* gives nothing to read (the slice panics)
int_slice(t, r) ==
  IF r[1] < 0 \/ r[2] > Len(t.data) \/ r[1] >= r[2]
  THEN <<>>
  ELSE SubSeq(t.data, r[1] + 1, r[2])

\* .last().unwrap() of the values read back
read_last(vals) == vals[Len(vals)]


(***************************************************************************)
(* MapGaussiansToIntersect kernel (shader not in the source tree; design   *)
(* document section 4.3).  One thread per splat; a visible splat writes    *)
(* one (key, splat id) record per tile of its bounding box, starting at    *)
(* its write offset, the scan value of its predecessor.  A write past the  *)
(* end of a buffer is dropped.                                             *)
(***************************************************************************)
WriteOffset(cum, i) == IF i = 1 THEN 0 ELSE cum[i - 1]

BufSplat(f, i) ==
  [xy |-> f.xys.data[i], radius |-> f.radii.data[i], depth |-> f.depths.data[i]]

MapCount(f, tb, i) ==
  IF f.radii.data[i] = 0 THEN 0 ELSE TileArea(BufSplat(f, i), tb)

\* the splats whose records land in slot j (0-based)
Writers(f, tb, j) ==
  { i \in DOMAIN f.radii.data :
      /\ WriteOffset(f.cum_tiles_hit.data, i) <= j
      /\ j < WriteOffset(f.cum_tiles_hit.data, i) + MapCount(f, tb, i) }

isect_key(tile, depth) == tile * Pow2(DEPTH_BITS) + (depth % Pow2(DEPTH_BITS))

MapKey(f, tb, i, j) ==
  LET s == BufSplat(f, i)
      k == j - WriteOffset(f.cum_tiles_hit.data, i)
      w == TileMax(s, tb)[1] - TileMin(s, tb)[1]
      tx == TileMin(s, tb)[1] + (k % w)
      ty == TileMin(s, tb)[2] + (k \div w)
  IN  isect_key(ty * tb[1] + tx, s.depth)

MapGaussiansToIntersect(f, tb) ==
  [f EXCEPT
     !.isect_ids_unsorted.data = [j \in DOMAIN @ |->
        IF Writers(f, tb, j - 1) = {} THEN @[j]
        ELSE MapKey(f, tb, CHOOSE i \in Writers(f, tb, j - 1) : TRUE, j - 1)],
     !.gaussian_ids_unsorted.data = [j \in DOMAIN @ |->
        IF Writers(f, tb, j - 1) = {} THEN @[j]
        ELSE (CHOOSE i \in Writers(f, tb, j - 1) : TRUE) - 1]]

(***************************************************************************)
(* radix_argsort (super::radix_sort, not in the source tree; design        *)
(* document section 4.4): least-significant-digit radix sort of the keys,  *)
(* one stable counting pass per digit, the values moved with their keys.   *)
(***************************************************************************)
Digit(k, p) == (k \div Pow2(RADIX_BITS * p)) % Pow2(RADIX_BITS)

\* variant: records of equal digit placed in the reverse of their order
PassPos_reversed(keys, p, i) ==
  Cardinality({j \in DOMAIN keys : Digit(keys[j], p) < Digit(keys[i], p)})
  + Cardinality({j \in DOMAIN keys : j > i /\ Digit(keys[j], p) = Digit(keys[i], p)})
  + 1

\* destination of element i in a counting pass on digit p
PassPos(keys, p, i) ==
  Cardinality({j \in DOMAIN keys : Digit(keys[j], p) < Digit(keys[i], p)})
  + Cardinality({j \in DOMAIN keys : j < i /\ Digit(keys[j], p) = Digit(keys[i], p)})
  + 1

\* kv is a pair <<keys, values>> of equally long sequences
RadixPass(kv, p) ==
  LET src(k) == CHOOSE i \in DOMAIN kv[1] : PassPos(kv[1], p, i) = k
      n == Len(kv[1])
  IN  << SubSeq([k \in 1..n |-> kv[1][src(k)]], 1, n),
         SubSeq([k \in 1..n |-> kv[2][src(k)]], 1, n) >>

RECURSIVE RadixPasses(_, _)
RadixPasses(kv, p) ==
  IF p = KEY_BITS \div RADIX_BITS THEN kv ELSE RadixPasses(RadixPass(kv, p), p + 1)

radix_argsort(keys, values) ==
  LET n == Min(Len(keys.data), Len(values.data))
      r == RadixPasses(<<SubSeq(keys.data, 1, n), SubSeq(values.data, 1, n)>>, 0)
  IN  << [shape |-> keys.shape, data |-> r[1]],
         [shape |-> values.shape, data |-> r[2]] >>

\* variant: keys and values handed over in the other order
SortCall_swapped(f) == radix_argsort(f.gaussian_ids_unsorted, f.isect_ids_unsorted)

\* the call at render.rs:178-182: keys are the intersection ids, values the
\* splat ids
SortCall(f) == radix_argsort(f.isect_ids_unsorted, f.gaussian_ids_unsorted)

(***************************************************************************)
(* GetTileBinEdges kernel (shader not in the source tree; design document  *)
(* section 4.5).  One thread per sorted record: where the tile id differs  *)
(* from the left neighbour's the thread writes the start of its tile and   *)
(* the end of the neighbour's tile; the last record closes its tile's      *)
(* range.  tile_bins holds (start, end) of tile t at elements 2t, 2t+1.    *)
(***************************************************************************)
KeyTile(k) == k \div Pow2(DEPTH_BITS)

\* threads (0-based) that write the start / the end of tile t
StartWriters(keys, n, t) ==
  { idx \in 0..(n - 1) :
      /\ KeyTile(keys[idx + 1]) = t
      /\ (idx = 0 \/ KeyTile(keys[idx]) # t) }

EndWriters(keys, n, t) ==
  { idx \in 0..(n - 1) :
      /\ KeyTile(keys[idx + 1]) = t
      /\ (idx = n - 1 \/ KeyTile(keys[idx + 2]) # t) }

GetTileBinEdges(bins, keys, n) ==
  [bins EXCEPT !.data = [e \in DOMAIN @ |->
     LET t == (e - 1) \div 2
     IN  IF (e - 1) % 2 = 0
         THEN IF StartWriters(keys.data, n, t) = {} THEN @[e]
              ELSE CHOOSE idx \in StartWriters(keys.data, n, t) : TRUE
         ELSE IF EndWriters(keys.data, n, t) = {} THEN @[e]
              ELSE (CHOOSE idx \in EndWriters(keys.data, n, t) : TRUE) + 1]]

BinStart(bins, t) == bins.data[2 * t + 1]
BinEnd(bins, t) == bins.data[2 * t + 2]


(***************************************************************************)
(* Dispatch grid.  calc_cube_count (brush-kernel lib.rs:17-23) turns the   *)
(* element counts handed to execute into workgroup counts; the rasteriser  *)
(* kernels run one workgroup per tile.                                     *)
(***************************************************************************)
SizeAt(sizes, i) == IF i <= Len(sizes) THEN sizes[i] ELSE 1

calc_cube_count(sizes, workgroup_size) ==
  << div_ceil(SizeAt(sizes, 1), workgroup_size[1]),
     div_ceil(SizeAt(sizes, 2), workgroup_size[2]),
     div_ceil(SizeAt(sizes, 3), workgroup_size[3]) >>

RasterWorkgroup == <<TILE_WIDTH, TILE_WIDTH, 1>>

\* is there a thread with global id (gx, gy) in the dispatch
HasThread(sizes, gx, gy) ==
  /\ gx < calc_cube_count(sizes, RasterWorkgroup)[1] * RasterWorkgroup[1]
  /\ gy < calc_cube_count(sizes, RasterWorkgroup)[2] * RasterWorkgroup[2]

\* render.rs:229 and render.rs:361
raster_dispatch(cam) == <<cam.height, cam.width, 1>>

(***************************************************************************)
(* Rasterize kernel (shader not in the source tree; design document        *)
(* section 4.6).  One thread per pixel.  The kernel receives the image     *)
(* size and derives the tile of its pixel from it.  A read past the end of *)
(* a buffer yields zero or the last element, depending on the device.      *)
(***************************************************************************)
OobModes == {"zero", "clamp"}

ReadBuf(d, i, oob) ==
  IF i \in DOMAIN d THEN d[i]
  ELSE IF oob = "zero" \/ d = <<>> THEN 0 ELSE d[Len(d)]

PixelTile(isz, gx, gy) ==
  (gy \div TILE_WIDTH) * div_ceil(isz[1], TILE_WIDTH) + (gx \div TILE_WIDTH)

Abs(a) == IF a < 0 THEN -a ELSE a

\* opacity times density of splat g (0-based) at pixel (gx, gy)
Alpha(f, sp, g, gx, gy) ==
  IF (g + 1) \notin DOMAIN f.xys.data \/ (g + 1) \notin DOMAIN sp THEN 0
  ELSE IF /\ Abs(gx - f.xys.data[g + 1][1]) <= f.cov2ds.data[g + 1]
          /\ Abs(gy - f.xys.data[g + 1][2]) <= f.cov2ds.data[g + 1]
          /\ f.cov2ds.data[g + 1] > 0
       THEN sp[g + 1].opacity
       ELSE 0

T_ONE == ONE * ONE

RECURSIVE Composite(_, _, _, _, _, _, _, _, _)
Composite(f, sp, gx, gy, idx, end, T, col, fin) ==
  IF idx >= end \/ idx >= Len(f.gaussian_ids_sorted.data)
  THEN [T |-> T, col |-> col, fin |-> fin]
  ELSE LET g == f.gaussian_ids_sorted.data[idx + 1]
           a == Alpha(f, sp, g, gx, gy)
           nextT == (T * (ONE - a)) \div ONE
       IN  IF a = 0
           THEN Composite(f, sp, gx, gy, idx + 1, end, T, col, fin)
           ELSE IF nextT < T_EPS
                THEN [T |-> nextT, col |-> col + a * T * sp[g + 1].color,
                      fin |-> idx]
                ELSE Composite(f, sp, gx, gy, idx + 1, end, nextT,
                               col + a * T * sp[g + 1].color, idx)

PixelResult(f, sp, isz, gx, gy, oob) ==
  LET t == PixelTile(isz, gx, gy)
      start == ReadBuf(f.tile_bins.data, 2 * t + 1, oob)
      end == ReadBuf(f.tile_bins.data, 2 * t + 2, oob)
  IN  Composite(f, sp, gx, gy, start, end, T_ONE, 0, start)

\* colour of a pixel: composited colour plus background times what is left
Blend(r, bg) == r.col + r.T * bg * ONE

Rasterize(f, sp, isz, bg, sizes, oob) ==
  [f EXCEPT
     !.out_img.data = [e \in DOMAIN @ |->
        LET gx == (e - 1) % isz[1]
            gy == (e - 1) \div isz[1]
        IN  IF HasThread(sizes, gx, gy) /\ gx < isz[1] /\ gy < isz[2]
            THEN Blend(PixelResult(f, sp, isz, gx, gy, oob), bg)
            ELSE @[e]],
     !.final_index.data = [e \in DOMAIN @ |->
        LET gx == (e - 1) % isz[1]
            gy == (e - 1) \div isz[1]
        IN  IF HasThread(sizes, gx, gy) /\ gx < isz[1] /\ gy < isz[2]
            THEN PixelResult(f, sp, isz, gx, gy, oob).fin
            ELSE @[e]]]


(***************************************************************************)
(* Forward call: Autodiff::render_gaussians, render.rs:79-267.             *)
(***************************************************************************)
Logged(items) == log' = log \o items

\* render.rs:88-112: prepare the operation, make the inputs contiguous and
\* check their shapes
CheckDims ==
  /\ pc = "start"
  /\ pc' = IF ForwardDimCheck(dims).ok THEN "checked" ELSE "dim_panic"
  /\ UNCHANGED <<inputs, fine, fwd, aux, state, ckpt, bwd, grads, parents, log>>

\* render.rs:114-153: tile grid, projection buffers, ProjectSplats
Project ==
  /\ pc = "checked"
  /\ LET n == dims.means[1]
         tb == tile_bounds(camera)
         alloc == [fwd EXCEPT
                     !.num_points = n,
                     !.tile_bounds = tb,
                     !.radii = create_tensor(<<n>>, n),
                     !.depths = create_tensor(<<n>>, n),
                     !.xys = create_tensor(<<n, 2>>, n),
                     !.cov2ds = create_tensor(<<n, 4>>, n),
                     !.num_tiles_hit = create_tensor(<<n>>, n)]
     IN  fwd' = ProjectSplats(alloc, splats, tb)
  /\ Logged(<<"create:radii", "create:depths", "create:xys", "create:cov2ds",
              "create:num_tiles_hit", "ProjectSplats">>)
  /\ pc' = "projected"
  /\ UNCHANGED <<inputs, fine, aux, state, ckpt, bwd, grads, parents>>

\* variant: the host waits for the scan by reading it back
PrefixSum_synced ==
  /\ pc = "projected"
  /\ fwd' = [fwd EXCEPT !.cum_tiles_hit = prefix_sum(fwd.num_tiles_hit)]
  /\ Logged(<<"prefix_sum", "read_buffer_to_u32">>)
  /\ pc' = "scanned"
  /\ UNCHANGED <<inputs, fine, aux, state, ckpt, bwd, grads, parents>>

\* render.rs:155
PrefixSum ==
  /\ pc = "projected"
  /\ fwd' = [fwd EXCEPT !.cum_tiles_hit = prefix_sum(fwd.num_tiles_hit)]
  /\ Logged(<<"prefix_sum">>)
  /\ pc' = "scanned"
  /\ UNCHANGED <<inputs, fine, aux, state, ckpt, bwd, grads, parents>>

\* variant: a readback that yields nothing is taken as zero intersections
\* and the call goes on
ReadBack_lenient ==
  /\ pc = "scanned"
  /\ LET r == last_elem_range(fwd.num_points)
         vals == int_slice(fwd.cum_tiles_hit, r)
     IN  fwd' = [fwd EXCEPT !.num_intersects =
                   IF vals = <<>> THEN 0 ELSE read_last(vals)]
  /\ Logged(<<"int_slice", "read_buffer_to_u32">>)
  /\ pc' = "sized"
  /\ UNCHANGED <<inputs, fine, aux, state, ckpt, bwd, grads, parents>>

\* render.rs:157-163: slice the last element of the scan and read it back.
\* With num_points = 0 the subtraction num_points - 1 overflows usize: a
\* debug build panics there, a release build wraps and the slice / the
\* unwrap of the empty readback panics.
ReadBack ==
  /\ pc = "scanned"
  /\ LET r == last_elem_range(fwd.num_points)
     IN  IF int_slice(fwd.cum_tiles_hit, r) = <<>>
         THEN /\ pc' = "readback_panic"
              /\ UNCHANGED <<fwd, log>>
         ELSE /\ fwd' = [fwd EXCEPT !.num_intersects =
                           read_last(int_slice(fwd.cum_tiles_hit, r))]
              /\ Logged(<<"int_slice", "read_buffer_to_u32">>)
              /\ pc' = "sized"
  /\ UNCHANGED <<inputs, fine, aux, state, ckpt, bwd, grads, parents>>

\* variant: the depths and the scan bound to the mapper in each other's place
MapIntersects_rebound ==
  /\ pc = "sized"
  /\ \E enough_memory \in BOOLEAN :
       IF enough_memory
       THEN /\ LET k == fwd.num_intersects
                   alloc == [fwd EXCEPT
                               !.isect_ids_unsorted = create_tensor(<<k>>, k),
                               !.gaussian_ids_unsorted = create_tensor(<<k>>, k),
                               !.cum_tiles_hit = fwd.depths,
                               !.depths = fwd.cum_tiles_hit]
               IN  fwd' = [MapGaussiansToIntersect(alloc, fwd.tile_bounds)
                             EXCEPT !.cum_tiles_hit = fwd.cum_tiles_hit,
                                    !.depths = fwd.depths]
            /\ Logged(<<"create:isect_ids_unsorted", "create:gaussian_ids_unsorted",
                        "MapGaussiansToIntersect">>)
            /\ pc' = "mapped"
       ELSE /\ pc' = "alloc_panic"
            /\ UNCHANGED <<fwd, log>>
  /\ UNCHANGED <<inputs, fine, aux, state, ckpt, bwd, grads, parents>>

\* render.rs:165-176.  The two reservations are sized by the value read
\* back; create_tensor has no error return (lib.rs:130-157), so a
\* reservation the device cannot satisfy ends the call with a panic.
MapIntersects ==
  /\ pc = "sized"
  /\ \E enough_memory \in BOOLEAN :
       IF enough_memory
       THEN /\ LET k == fwd.num_intersects
                   alloc == [fwd EXCEPT
                               !.isect_ids_unsorted = create_tensor(<<k>>, k),
                               !.gaussian_ids_unsorted = create_tensor(<<k>>, k)]
               IN  fwd' = MapGaussiansToIntersect(alloc, fwd.tile_bounds)
            /\ Logged(<<"create:isect_ids_unsorted", "create:gaussian_ids_unsorted",
                        "MapGaussiansToIntersect">>)
            /\ pc' = "mapped"
       ELSE /\ pc' = "alloc_panic"
            /\ UNCHANGED <<fwd, log>>
  /\ UNCHANGED <<inputs, fine, aux, state, ckpt, bwd, grads, parents>>

\* render.rs:178-182
Sort ==
  /\ pc = "mapped"
  /\ fwd' = [fwd EXCEPT !.isect_ids_sorted = SortCall(fwd)[1],
                        !.gaussian_ids_sorted = SortCall(fwd)[2]]
  /\ Logged(<<"radix_argsort">>)
  /\ pc' = "sorted"
  /\ UNCHANGED <<inputs, fine, aux, state, ckpt, bwd, grads, parents>>

\* render.rs:184-203: reserve the tile bins, clear them, find the tile edges
tile_bins_shape(tb) == <<tb[1], tb[2], 2>>

\* variant: the Zero dispatch left out
ClearTileBins_skipped(t) == t

ClearTileBins(t) == Zero(t, num_elements(t.shape))

\* variant: the tile edges found first, the bins cleared after
TileBins_edges_first ==
  /\ pc = "sorted"
  /\ LET shp == tile_bins_shape(fwd.tile_bounds)
         bins == GetTileBinEdges(create_tensor(shp, num_elements(shp)),
                                 fwd.isect_ids_sorted,
                                 Min(fwd.num_intersects,
                                     Len(fwd.isect_ids_sorted.data)))
     IN  fwd' = [fwd EXCEPT !.tile_bins = ClearTileBins(bins)]
  /\ Logged(<<"create:tile_bins", "GetTileBinEdges", "Zero:tile_bins">>)
  /\ pc' = "binned"
  /\ UNCHANGED <<inputs, fine, aux, state, ckpt, bwd, grads, parents>>

TileBins ==
  /\ pc = "sorted"
  /\ LET shp == tile_bins_shape(fwd.tile_bounds)
         bins == ClearTileBins(create_tensor(shp, num_elements(shp)))
     IN  fwd' = [fwd EXCEPT !.tile_bins =
                   GetTileBinEdges(bins, fwd.isect_ids_sorted,
                                   Min(fwd.num_intersects,
                                       Len(fwd.isect_ids_sorted.data)))]
  /\ Logged(<<"create:tile_bins", "Zero:tile_bins", "GetTileBinEdges">>)
  /\ pc' = "binned"
  /\ UNCHANGED <<inputs, fine, aux, state, ckpt, bwd, grads, parents>>

\* render.rs:205-230
out_img_shape(cam) == <<cam.height, cam.width, 4>>
final_index_shape(cam) == <<cam.height, cam.width>>

RasterizeForward ==
  /\ pc = "binned"
  /\ \E oob \in OobModes :
       LET px == camera.height * camera.width
           alloc == [fwd EXCEPT
                       !.out_img = create_tensor(out_img_shape(camera), px),
                       !.final_index = create_tensor(final_index_shape(camera), px)]
       IN  fwd' = Rasterize(alloc, splats, img_size(camera), background,
                            raster_dispatch(camera), oob)
  /\ Logged(<<"create:out_img", "create:final_index", "Rasterize">>)
  /\ pc' = "rasterized"
  /\ UNCHANGED <<inputs, fine, aux, state, ckpt, bwd, grads, parents>>

\* render.rs:232-266: build Aux; when tracked, checkpoint the inputs and keep
\* the state for backward
\* variant: colors checkpointed twice, opacity never
checkpoint_order_dup == <<"means", "scales", "quats", "colors", "colors">>

checkpoint_order == <<"means", "scales", "quats", "colors", "opacity">>

\* variant: the untracked path returns without filling the Aux record
Finish_bare ==
  /\ pc = "rasterized"
  /\ aux' = IF prep_nodes = "Tracked"
            THEN [returned |-> TRUE, tile_bins |-> fwd.tile_bins,
                  num_intersects |-> fwd.num_intersects]
            ELSE [returned |-> TRUE, tile_bins |-> NoTensor, num_intersects |-> 0]
  /\ IF prep_nodes = "Tracked"
     THEN /\ ckpt' = [ckpt EXCEPT !.taken = checkpoint_order]
          /\ state' = [ kept |-> TRUE,
                        means |-> checkpoint_order[1],
                        scales |-> checkpoint_order[2],
                        quats |-> checkpoint_order[3],
                        colors |-> checkpoint_order[4],
                        opacity |-> checkpoint_order[5],
                        radii |-> fwd.radii,
                        cam |-> camera,
                        background |-> background,
                        out_img |-> fwd.out_img,
                        gaussian_ids_sorted |-> fwd.gaussian_ids_sorted,
                        tile_bins |-> fwd.tile_bins,
                        xys |-> fwd.xys,
                        cov2ds |-> fwd.cov2ds,
                        final_index |-> fwd.final_index ]
     ELSE UNCHANGED <<ckpt, state>>
  /\ pc' = "returned"
  /\ UNCHANGED <<inputs, fine, fwd, bwd, grads, parents, log>>

\* render.rs:232-266: the Aux record, then the match on prep_nodes
Finish ==
  /\ pc = "rasterized"
  /\ aux' = [returned |-> TRUE, tile_bins |-> fwd.tile_bins,
             num_intersects |-> fwd.num_intersects]
  /\ IF prep_nodes = "Tracked"
     THEN /\ ckpt' = [ckpt EXCEPT !.taken = checkpoint_order]
          /\ state' = [ kept |-> TRUE,
                        means |-> checkpoint_order[1],
                        scales |-> checkpoint_order[2],
                        quats |-> checkpoint_order[3],
                        colors |-> checkpoint_order[4],
                        opacity |-> checkpoint_order[5],
                        radii |-> fwd.radii,
                        cam |-> camera,
                        background |-> background,
                        out_img |-> fwd.out_img,
                        gaussian_ids_sorted |-> fwd.gaussian_ids_sorted,
                        tile_bins |-> fwd.tile_bins,
                        xys |-> fwd.xys,
                        cov2ds |-> fwd.cov2ds,
                        final_index |-> fwd.final_index ]
     ELSE UNCHANGED <<ckpt, state>>
  /\ pc' = "returned"
  /\ UNCHANGED <<inputs, fine, fwd, bwd, grads, parents, log>>

(***************************************************************************)
(* RasterizeBackwards kernel (shader not in the source tree; design        *)
(* document section 4.7).  One thread per pixel walks its tile's range     *)
(* from the recorded final index back to the range start and adds, with    *)
(* atomic adds, one contribution per visited splat of non-zero alpha to    *)
(* that splat's accumulators.  Gradient values are abstracted to the       *)
(* number of contributions.                                                *)
(***************************************************************************)
\* render.rs:341
bwd_img_size(cam) == <<cam.height, cam.width>>

\* render.rs:374: the image size handed to ProjectBackwards
project_bwd_img_size(cam) == <<cam.height, cam.width>>

\* what the thread of pixel (gx, gy) reads: the range of its tile and the
\* final index recorded for its pixel; it walks from fin back to start
BackwardWalk(st, isz, gx, gy, oob) ==
  LET t == PixelTile(isz, gx, gy)
  IN  [start |-> ReadBuf(st.tile_bins.data, 2 * t + 1, oob),
       end |-> ReadBuf(st.tile_bins.data, 2 * t + 2, oob),
       fin |-> ReadBuf(st.final_index.data, gx + gy * isz[1] + 1, oob)]

Contributions(st, sp, isz, sizes, oob, g) ==
  { c \in (0..(isz[1] - 1)) \X (0..(isz[2] - 1)) \X
          (0..(Len(st.gaussian_ids_sorted.data) - 1)) :
      LET walk == BackwardWalk(st, isz, c[1], c[2], oob)
      IN  /\ HasThread(sizes, c[1], c[2])
          /\ walk.start <= c[3] /\ c[3] <= walk.fin /\ c[3] < walk.end
          /\ st.gaussian_ids_sorted.data[c[3] + 1] = g
          /\ Alpha(st, sp, g, c[1], c[2]) > 0 }

Accumulate(t, st, sp, isz, sizes, oob) ==
  [t EXCEPT !.data = [i \in DOMAIN @ |->
     @[i] + Cardinality(Contributions(st, sp, isz, sizes, oob, i - 1))]]

RasterizeBackwards(b, st, sp, isz, sizes, oob) ==
  [b EXCEPT !.v_xy = Accumulate(@, st, sp, isz, sizes, oob),
            !.v_conic = Accumulate(@, st, sp, isz, sizes, oob),
            !.v_colors = Accumulate(@, st, sp, isz, sizes, oob),
            !.v_opacity = Accumulate(@, st, sp, isz, sizes, oob)]

(***************************************************************************)
(* ProjectBackwards kernel (shader not in the source tree; design document *)
(* section 4.8).  One thread per splat: a splat culled by the projector    *)
(* (radius 0) gets zero gradient, a visible one the chain rule applied to  *)
(* its 2D gradients.                                                       *)
(***************************************************************************)
ProjectBackwards(b, st) ==
  [b EXCEPT
     !.v_means.data = [i \in DOMAIN @ |->
        IF st.radii.data[i] = 0 THEN 0 ELSE b.v_xy.data[i] + b.v_conic.data[i]],
     !.v_scales.data = [i \in DOMAIN @ |->
        IF st.radii.data[i] = 0 THEN 0 ELSE b.v_conic.data[i]],
     !.v_quats.data = [i \in DOMAIN @ |->
        IF st.radii.data[i] = 0 THEN 0 ELSE b.v_conic.data[i]]]

(***************************************************************************)
(* Backward call: RenderBackwards::backward, render.rs:277-413.            *)
(***************************************************************************)
\* render.rs:296-300: the checkpoints fetched, in the order of the calls
retrieve_order(st) == <<st.means, st.quats, st.scales, st.colors, st.opacity>>

\* render.rs:284-302
BackwardRetrieve ==
  /\ pc = "returned"
  /\ state.kept
  /\ ckpt' = [ckpt EXCEPT !.retrieved = retrieve_order(state)]
  /\ bwd' = [bwd EXCEPT !.num_points = dims.means[1]]
  /\ pc' = "bwd_retrieved"
  /\ UNCHANGED <<inputs, fine, fwd, aux, state, grads, parents, log>>

\* variant: the mean gradient reserved three wide
v_shape_narrow(nm, n) ==
  CASE nm = "v_xy" -> <<n, 2>>
    [] nm = "v_conic" -> <<n, 4>>
    [] nm = "v_colors" -> <<n, 4>>
    [] nm = "v_opacity" -> <<n>>
    [] nm = "v_means" -> <<n, 3>>
    [] nm = "v_scales" -> <<n, 4>>
    [] nm = "v_quats" -> <<n, 4>>

\* shapes of the buffers reserved by backward, render.rs:305-308, 365-367
v_shape(nm, n) ==
  CASE nm = "v_xy" -> <<n, 2>>
    [] nm = "v_conic" -> <<n, 4>>
    [] nm = "v_colors" -> <<n, 4>>
    [] nm = "v_opacity" -> <<n>>
    [] nm = "v_means" -> <<n, 4>>
    [] nm = "v_scales" -> <<n, 4>>
    [] nm = "v_quats" -> <<n, 4>>

\* variant: the colour accumulator cleared with one thread per splat
v_zero_count_short(nm, n) ==
  CASE nm = "v_xy" -> n * 2
    [] nm = "v_conic" -> n * 4
    [] nm = "v_colors" -> n
    [] nm = "v_opacity" -> n

\* thread counts of the four Zero dispatches, render.rs:309-336
v_zero_count(nm, n) ==
  CASE nm = "v_xy" -> n * 2
    [] nm = "v_conic" -> n * 4
    [] nm = "v_colors" -> n * 4
    [] nm = "v_opacity" -> n

\* render.rs:304-336: reserve and clear the accumulators
Cleared(nm, n) == Zero(create_tensor(v_shape(nm, n), n), v_zero_count(nm, n))

BackwardZero ==
  /\ pc = "bwd_retrieved"
  /\ LET n == bwd.num_points
     IN  bwd' = [bwd EXCEPT
                   !.v_xy = Cleared("v_xy", n),
                   !.v_conic = Cleared("v_conic", n),
                   !.v_colors = Cleared("v_colors", n),
                   !.v_opacity = Cleared("v_opacity", n)]
  /\ Logged(<<"create:v_xy", "create:v_conic", "create:v_colors",
              "create:v_opacity", "Zero:v_xy", "Zero:v_conic",
              "Zero:v_colors", "Zero:v_opacity">>)
  /\ pc' = "bwd_zeroed"
  /\ UNCHANGED <<inputs, fine, fwd, aux, state, ckpt, grads, parents>>

\* render.rs:338-362
BackwardRasterize ==
  /\ pc = "bwd_zeroed"
  /\ \E oob \in OobModes :
       bwd' = RasterizeBackwards(bwd, state, splats, bwd_img_size(state.cam),
                                 raster_dispatch(state.cam), oob)
  /\ Logged(<<"RasterizeBackwards">>)
  /\ pc' = "bwd_rasterized"
  /\ UNCHANGED <<inputs, fine, fwd, aux, state, ckpt, grads, parents>>

\* render.rs:364-388
BackwardProject ==
  /\ pc = "bwd_rasterized"
  /\ LET n == bwd.num_points
         alloc == [bwd EXCEPT
                     !.v_means = create_tensor(v_shape("v_means", n), n),
                     !.v_scales = create_tensor(v_shape("v_scales", n), n),
                     !.v_quats = create_tensor(v_shape("v_quats", n), n)]
     IN  bwd' = ProjectBackwards(alloc, state)
  /\ Logged(<<"create:v_means", "create:v_scales", "create:v_quats",
              "ProjectBackwards">>)
  /\ pc' = "bwd_projected"
  /\ UNCHANGED <<inputs, fine, fwd, aux, state, ckpt, grads, parents>>

\* render.rs:390-412: one registration per present parent, in this order,
\* under the parent's node id
register_order == <<"means", "scales", "quats", "colors", "opacity">>

\* variant: the scale and rotation gradients registered crosswise
grad_of_swapped(nm) ==
  CASE nm = "means" -> "v_means"
    [] nm = "scales" -> "v_quats"
    [] nm = "quats" -> "v_scales"
    [] nm = "colors" -> "v_colors"
    [] nm = "opacity" -> "v_opacity"

grad_of(nm) ==
  CASE nm = "means" -> "v_means"
    [] nm = "scales" -> "v_scales"
    [] nm = "quats" -> "v_quats"
    [] nm = "colors" -> "v_colors"
    [] nm = "opacity" -> "v_opacity"

Registration(b, nm) == [id |-> nm, grad |-> grad_of(nm), tensor |-> b[grad_of(nm)]]

Registrations(b, ps) ==
  LET present == SelectSeq(register_order, LAMBDA nm : nm \in ps)
  IN  [k \in 1..Len(present) |-> Registration(b, present[k])]

\* ops.parents holds a node for every tracked input; the operation was
\* prepared as Tracked, so at least one input is tracked
BackwardRegister ==
  /\ pc = "bwd_projected"
  /\ \E ps \in (SUBSET Inputs) \ {{}} :
       /\ parents' = ps
       /\ grads' = Registrations(bwd, ps)
  /\ pc' = "bwd_done"
  /\ UNCHANGED <<inputs, fine, fwd, aux, state, ckpt, bwd, log>>

Backward ==
  \/ BackwardRetrieve \/ BackwardZero \/ BackwardRasterize
  \/ BackwardProject \/ BackwardRegister

Forward ==
  \/ CheckDims \/ Project \/ PrefixSum \/ ReadBack \/ MapIntersects
  \/ Sort \/ TileBins \/ RasterizeForward \/ Finish

Next == Forward \/ Backward

Spec == Init /\ [][Next]_vars

(***************************************************************************)
(* The Rasterize dispatch thread by thread.  The threads of one dispatch   *)
(* run concurrently and in no defined order; here each runs as a step of   *)
(* its own, in any order.  A thread whose pixel lies outside the image     *)
(* returns at once and is left out.  Every thread reads the buffers bound  *)
(* for reading at render.rs:220-227 as they are when it runs and writes    *)
(* its element of the two buffers bound for writing at render.rs:228.      *)
(***************************************************************************)
\* largest camera width / height explored thread by thread
MaxPixDim == 2

\* variant: the row of the pixel left out of the address
PixelSlot_row(isz, gx, gy) == gx + 1

\* element of out_img / final_index that the thread of pixel (gx, gy) writes
PixelSlot(isz, gx, gy) == gx + gy * isz[1] + 1

RasterThreads(cam) ==
  { t \in (0..(cam.width - 1)) \X (0..(cam.height - 1)) :
      HasThread(raster_dispatch(cam), t[1], t[2]) }

\* render.rs:205-230: reserve the outputs and issue the dispatch
RasterStart ==
  /\ pc = "binned"
  /\ \E oob \in OobModes :
       raster' = [pending |-> RasterThreads(camera), oob |-> oob]
  /\ LET px == camera.height * camera.width
     IN  fwd' = [fwd EXCEPT
                   !.out_img = create_tensor(out_img_shape(camera), px),
                   !.final_index = create_tensor(final_index_shape(camera), px)]
  /\ Logged(<<"create:out_img", "create:final_index", "Rasterize">>)
  /\ pc' = "rasterizing"
  /\ UNCHANGED <<inputs, calls, sorter, loader, app, train, cube, aux, state, ckpt, bwd, grads, parents>>

\* one thread of the dispatch runs
RasterThread ==
  /\ pc = "rasterizing"
  /\ \E t \in raster.pending :
       LET r == PixelResult(fwd, splats, img_size(camera), t[1], t[2], raster.oob)
           e == PixelSlot(img_size(camera), t[1], t[2])
       IN  /\ fwd' = [fwd EXCEPT !.out_img.data[e] = Blend(r, background),
                                 !.final_index.data[e] = r.fin]
           /\ raster' = [raster EXCEPT !.pending = @ \ {t}]
  /\ UNCHANGED <<pc, inputs, calls, sorter, loader, app, train, cube, aux, state, ckpt, bwd, grads, parents, log>>

\* all threads have run: the dispatch is complete
RasterJoin ==
  /\ pc = "rasterizing"
  /\ raster.pending = {}
  /\ pc' = "rasterized"
  /\ UNCHANGED <<inputs, fine, fwd, aux, state, ckpt, bwd, grads, parents, log>>

PixelInit ==
  /\ pc = "start"
  /\ camera \in [width : 1..MaxPixDim, height : 1..MaxPixDim]
  /\ splats \in SplatSeqs
  /\ dims \in { d \in ShapeChoices(Len(splats)) : ForwardDimCheck(d).ok }
  /\ background \in Backgrounds
  /\ prep_nodes = "UnTracked"
  /\ fresh \in FreshValues
  /\ fwd = FwdInit
  /\ aux = NoAux
  /\ state = NoState
  /\ ckpt = [taken |-> <<>>, retrieved |-> <<>>]
  /\ bwd = BwdInit
  /\ grads = <<>>
  /\ parents = {}
  /\ log = <<>>
  /\ raster = NoRaster
  /\ calls = NoCalls
  /\ sorter = NoSort
  /\ loader = NoLoad
  /\ app = NoApp
  /\ train = NoTrain
  /\ cube = NoCube

PixelNext ==
  \/ CheckDims \/ Project \/ PrefixSum \/ ReadBack \/ MapIntersects
  \/ Sort \/ TileBins \/ RasterStart \/ RasterThread \/ RasterJoin

PixelSpec == PixelInit /\ [][PixelNext]_vars

(***************************************************************************)
(* Several calls in flight at once, followed by buffer handle.  Each step  *)
(* of a call reserves buffers and dispatches work that reads and writes    *)
(* the buffers bound to it; the lists below are the reservations and the   *)
(* read / write bindings of render.rs, in order.  A reservation            *)
(* (create_tensor -> client.empty, lib.rs:138) yields a handle no earlier  *)
(* reservation has yielded.  The calls are handed the same five input      *)
(* tensors; every backward call has an output gradient of its own.         *)
(***************************************************************************)
Calls == {"a", "b"}

Step(phase, creates, reads, writes) ==
  [phase |-> phase, creates |-> creates, reads |-> reads, writes |-> writes]

\* variant: the projector normalises the quaternions in place
ForwardProgram_inplace ==
  << Step("forward",
          <<"radii", "depths", "xys", "cov2ds", "num_tiles_hit">>,
          {"means", "scales", "quats"},
          {"quats", "xys", "depths", "radii", "cov2ds", "num_tiles_hit"}),
     Step("forward",
          <<"cum_tiles_hit", "last_elem">>,
          {"num_tiles_hit", "cum_tiles_hit"},
          {"cum_tiles_hit", "last_elem"}),
     Step("forward",
          <<"isect_ids_unsorted", "gaussian_ids_unsorted",
            "isect_ids_sorted", "gaussian_ids_sorted">>,
          {"xys", "radii", "cum_tiles_hit", "depths",
           "isect_ids_unsorted", "gaussian_ids_unsorted"},
          {"isect_ids_unsorted", "gaussian_ids_unsorted",
           "isect_ids_sorted", "gaussian_ids_sorted"}),
     Step("forward",
          <<"tile_bins", "out_img", "final_index">>,
          {"isect_ids_sorted", "gaussian_ids_sorted", "tile_bins", "xys",
           "cov2ds", "colors", "opacity"},
          {"tile_bins", "out_img", "final_index"}) >>

\* render_gaussians in the four stretches between which another call may
\* get its turn: ProjectSplats (render.rs:127-153); prefix_sum and the
\* slice that is read back (155-163); MapGaussiansToIntersect and
\* radix_argsort (166-182); Zero, GetTileBinEdges and Rasterize (184-230)
ForwardProgram ==
  << Step("forward",
          <<"radii", "depths", "xys", "cov2ds", "num_tiles_hit">>,
          {"means", "scales", "quats"},
          {"xys", "depths", "radii", "cov2ds", "num_tiles_hit"}),
     Step("forward",
          <<"cum_tiles_hit", "last_elem">>,
          {"num_tiles_hit", "cum_tiles_hit"},
          {"cum_tiles_hit", "last_elem"}),
     Step("forward",
          <<"isect_ids_unsorted", "gaussian_ids_unsorted",
            "isect_ids_sorted", "gaussian_ids_sorted">>,
          {"xys", "radii", "cum_tiles_hit", "depths",
           "isect_ids_unsorted", "gaussian_ids_unsorted"},
          {"isect_ids_unsorted", "gaussian_ids_unsorted",
           "isect_ids_sorted", "gaussian_ids_sorted"}),
     Step("forward",
          <<"tile_bins", "out_img", "final_index">>,
          {"isect_ids_sorted", "gaussian_ids_sorted", "tile_bins", "xys",
           "cov2ds", "colors", "opacity"},
          {"tile_bins", "out_img", "final_index"}) >>

\* variant: the backward rasteriser accumulates into the forward image
BackwardProgram_inplace ==
  << Step("backward", <<"v_xy", "v_conic", "v_colors", "v_opacity">>, {},
          {"v_xy", "v_conic", "v_colors", "v_opacity"}),
     Step("backward", <<>>,
          {"gaussian_ids_sorted", "tile_bins", "xys", "cov2ds", "colors",
           "opacity", "final_index", "out_img", "v_output"},
          {"v_xy", "v_conic", "v_colors", "v_opacity", "out_img"}),
     Step("backward", <<"v_means", "v_scales", "v_quats">>,
          {"means", "scales", "quats", "radii", "cov2ds", "v_xy", "v_conic",
           "v_opacity"},
          {"v_means", "v_scales", "v_quats"}) >>

\* backward: the four Zero dispatches (render.rs:305-336),
\* RasterizeBackwards (338-362), ProjectBackwards (365-388)
BackwardProgram ==
  << Step("backward", <<"v_xy", "v_conic", "v_colors", "v_opacity">>, {},
          {"v_xy", "v_conic", "v_colors", "v_opacity"}),
     Step("backward", <<>>,
          {"gaussian_ids_sorted", "tile_bins", "xys", "cov2ds", "colors",
           "opacity", "final_index", "out_img", "v_output"},
          {"v_xy", "v_conic", "v_colors", "v_opacity"}),
     Step("backward", <<"v_means", "v_scales", "v_quats">>,
          {"means", "scales", "quats", "radii", "cov2ds", "v_xy", "v_conic",
           "v_opacity"},
          {"v_means", "v_scales", "v_quats"}) >>

Program == ForwardProgram \o BackwardProgram

\* the buffers a call reserves in a phase
Reserved(phase) ==
  UNION { Range(Program[k].creates) :
            k \in { i \in DOMAIN Program : Program[i].phase = phase } }

BufferNames == Inputs \cup {"v_output"} \cup Reserved("forward") \cup Reserved("backward")

\* handles of the input tensors, the same for every call
InputHandle ==
  [ means |-> 1, scales |-> 2, quats |-> 3, colors |-> 4, opacity |-> 5 ]

InputHandles == { InputHandle[nm] : nm \in Inputs }

\* handle of a call's output gradient, reserved by the caller of backward
GradientHandle == [ a |-> 6, b |-> 7 ]

\* the names a call knows before its first step; handle 0: not reserved yet
StartEnv(c) ==
  [ n \in BufferNames |->
      IF n \in Inputs THEN InputHandle[n]
      ELSE IF n = "v_output" THEN GradientHandle[c]
      ELSE 0 ]

CallsInit ==
  [ next_handle |-> 7,
    call |-> [ c \in Calls |-> [pos |-> 0, env |-> StartEnv(c)] ] ]

\* position of name n in the sequence q (n occurs in q)
IndexIn(q, n) == CHOOSE i \in DOMAIN q : q[i] = n

\* call c takes its next step: the reservations in order, then the dispatch
TakeStep(c) ==
  LET me == calls.call[c]
      st == Program[me.pos + 1]
      env == [ n \in BufferNames |->
                 IF n \in Range(st.creates)
                 THEN calls.next_handle + IndexIn(st.creates, n)
                 ELSE me.env[n] ]
  IN  calls' =
        [ next_handle |-> calls.next_handle + Len(st.creates),
          call |-> [calls.call EXCEPT ![c] = [pos |-> me.pos + 1, env |-> env]] ]

\* the steps of a phase that call c has taken
Taken(c, phase) ==
  { k \in 1..calls.call[c].pos : Program[k].phase = phase }

\* the handles bound for writing / for reading in the steps call c has
\* taken (a name is bound to one handle for the whole call)
WritesOf(c, phase) ==
  { calls.call[c].env[n] : n \in UNION { Program[k].writes : k \in Taken(c, phase) } }

ReadsOf(c, phase) ==
  { calls.call[c].env[n] : n \in UNION { Program[k].reads : k \in Taken(c, phase) } }

Untouched ==
  UNCHANGED <<pc, inputs, raster, sorter, loader, app, train, cube, fwd, aux, state, ckpt, bwd, grads, parents, log>>

ForwardStep ==
  \E c \in Calls :
    /\ calls.call[c].pos < Len(ForwardProgram)
    /\ TakeStep(c)
    /\ Untouched

\* backward of a call runs once its forward call has returned
BackwardStep ==
  \E c \in Calls :
    /\ calls.call[c].pos >= Len(ForwardProgram)
    /\ calls.call[c].pos < Len(Program)
    /\ TakeStep(c)
    /\ Untouched

CallsSpecInit ==
  /\ pc = "start"
  /\ camera = [width |-> 1, height |-> 1]
  /\ splats = <<>>
  /\ dims = [means |-> <<0, 4>>, scales |-> <<0, 4>>, quats |-> <<0, 4>>,
             colors |-> <<0, 4>>, opacity |-> <<0>>]
  /\ background = 0
  /\ prep_nodes = "Tracked"
  /\ fresh = 0
  /\ fwd = FwdInit
  /\ aux = NoAux
  /\ state = NoState
  /\ ckpt = [taken |-> <<>>, retrieved |-> <<>>]
  /\ bwd = BwdInit
  /\ grads = <<>>
  /\ parents = {}
  /\ log = <<>>
  /\ raster = NoRaster
  /\ calls = CallsInit
  /\ sorter = NoSort
  /\ loader = NoLoad
  /\ app = NoApp
  /\ train = NoTrain
  /\ cube = NoCube

CallsNext == ForwardStep \/ BackwardStep

CallsSpec == CallsSpecInit /\ [][CallsNext]_vars




(***************************************************************************)
(* The RasterizeBackwards dispatch add by add.  Every pixel thread walks   *)
(* its records from the final index back to the start of the range and,    *)
(* for each record of non-zero alpha, adds its contribution to the four    *)
(* accumulators of the record's splat with atomic adds.  The threads run   *)
(* concurrently: their adds come in any order, those of one thread in the  *)
(* order of its walk.  A piece of work is a triple (gx, gy, record index). *)
(***************************************************************************)
AllContributions(st, sp, isz, sizes, oob) ==
  UNION { Contributions(st, sp, isz, sizes, oob, g) :
            g \in 0..(Len(st.radii.data) - 1) }

\* render.rs:338-362: the dispatch is issued
BackStart ==
  /\ pc = "bwd_zeroed"
  /\ \E oob \in OobModes :
       raster' = [pending |-> AllContributions(state, splats,
                                               bwd_img_size(state.cam),
                                               raster_dispatch(state.cam), oob),
                  oob |-> oob]
  /\ Logged(<<"RasterizeBackwards">>)
  /\ pc' = "bwd_rasterizing"
  /\ UNCHANGED <<inputs, calls, sorter, loader, app, train, cube, fwd, aux, state, ckpt, bwd, grads,
                 parents>>

\* the accumulator with one more contribution for splat g (0-based)
atomic_add(t, g) == [t EXCEPT !.data[g + 1] = @ + 1]

\* variant: a plain store of the thread's own contribution
BackAdd_stored ==
  /\ pc = "bwd_rasterizing"
  /\ \E c \in raster.pending :
       /\ \A d \in raster.pending : (d[1] = c[1] /\ d[2] = c[2]) => d[3] <= c[3]
       /\ LET g == state.gaussian_ids_sorted.data[c[3] + 1]
          IN  bwd' = [bwd EXCEPT !.v_xy.data[g + 1] = 1,
                                 !.v_conic.data[g + 1] = 1,
                                 !.v_colors.data[g + 1] = 1,
                                 !.v_opacity.data[g + 1] = 1]
       /\ raster' = [raster EXCEPT !.pending = @ \ {c}]
  /\ UNCHANGED <<pc, inputs, calls, sorter, loader, app, train, cube, fwd, aux, state, ckpt, grads,
                 parents, log>>

\* the next add of one of the threads
BackAdd ==
  /\ pc = "bwd_rasterizing"
  /\ \E c \in raster.pending :
       /\ \A d \in raster.pending : (d[1] = c[1] /\ d[2] = c[2]) => d[3] <= c[3]
       /\ LET g == state.gaussian_ids_sorted.data[c[3] + 1]
          IN  bwd' = [bwd EXCEPT !.v_xy = atomic_add(@, g),
                                 !.v_conic = atomic_add(@, g),
                                 !.v_colors = atomic_add(@, g),
                                 !.v_opacity = atomic_add(@, g)]
       /\ raster' = [raster EXCEPT !.pending = @ \ {c}]
  /\ UNCHANGED <<pc, inputs, calls, sorter, loader, app, train, cube, fwd, aux, state, ckpt, grads,
                 parents, log>>

\* all threads have finished
BackJoin ==
  /\ pc = "bwd_rasterizing"
  /\ raster.pending = {}
  /\ pc' = "bwd_rasterized"
  /\ UNCHANGED <<inputs, fine, fwd, aux, state, ckpt, bwd, grads, parents, log>>

\* a tracked call on an image of at most MaxPixDim by MaxPixDim pixels
BackInit ==
  /\ Init
  /\ prep_nodes = "Tracked"
  /\ background = 0
  /\ camera.width \in 1..MaxPixDim /\ camera.height \in 1..MaxPixDim
  /\ ForwardDimCheck(dims).ok

BackNext ==
  \/ Forward
  \/ BackwardRetrieve \/ BackwardZero \/ BackStart \/ BackAdd \/ BackJoin

BackSpec == BackInit /\ [][BackNext]_vars

(***************************************************************************)
(* The scan on its own: prefix_sum applied to tile-hit count arrays of     *)
(* every length up to MaxScanLen, among them lengths that are not a        *)
(* multiple of the block width, followed by the readback of its last       *)
(* element (render.rs:155-163).                                            *)
(***************************************************************************)
\* longest tile-hit count array handed to the scan
MaxScanLen == 5

\* tile-hit counts of one splat
ScanCounts == 0..2

\* the state after ProjectSplats has written the tile-hit counts; the scan
\* reads nothing but the counts, the splat data is left out
ScanInit ==
  /\ pc = "projected"
  /\ camera = [width |-> TILE_WIDTH, height |-> TILE_WIDTH]
  /\ splats = <<>>
  /\ background = 0
  /\ prep_nodes = "UnTracked"
  /\ fresh = 0
  /\ \E n \in 0..MaxScanLen :
       /\ dims \in { d \in ShapeChoices(n) : ForwardDimCheck(d).ok }
       /\ \E counts \in [1..n -> ScanCounts] :
            fwd = [FwdInit EXCEPT
                     !.num_points = n,
                     !.tile_bounds = tile_bounds(camera),
                     !.num_tiles_hit = [shape |-> <<n>>, data |-> counts]]
  /\ aux = NoAux
  /\ state = NoState
  /\ ckpt = [taken |-> <<>>, retrieved |-> <<>>]
  /\ bwd = BwdInit
  /\ grads = <<>>
  /\ parents = {}
  /\ log = <<>>
  /\ raster = NoRaster
  /\ calls = NoCalls
  /\ sorter = NoSort
  /\ loader = NoLoad
  /\ app = NoApp
  /\ train = NoTrain
  /\ cube = NoCube

ScanNext == PrefixSum \/ ReadBack

ScanSpec == ScanInit /\ [][ScanNext]_vars

(***************************************************************************)
(* The radix sort digit pass by digit pass (radix_argsort, called at       *)
(* render.rs:178-182): the passes of one sort run one after the other,     *)
(* each on the output of the pass before.                                  *)
(***************************************************************************)
RadixPassCount == KEY_BITS \div RADIX_BITS

SortStart ==
  /\ pc = "mapped"
  /\ LET n == Min(Len(fwd.isect_ids_unsorted.data),
                  Len(fwd.gaussian_ids_unsorted.data))
     IN  sorter' = [pass |-> 0,
                    kv |-> << SubSeq(fwd.isect_ids_unsorted.data, 1, n),
                              SubSeq(fwd.gaussian_ids_unsorted.data, 1, n) >>]
  /\ Logged(<<"radix_argsort">>)
  /\ pc' = "sorting"
  /\ UNCHANGED <<inputs, raster, calls, loader, app, train, cube, fwd, aux, state, ckpt, bwd, grads,
                 parents>>

\* the counting pass on the next digit
SortPass ==
  /\ pc = "sorting"
  /\ sorter.pass < RadixPassCount
  /\ sorter' = [pass |-> sorter.pass + 1, kv |-> RadixPass(sorter.kv, sorter.pass)]
  /\ UNCHANGED <<pc, inputs, raster, calls, loader, app, train, cube, fwd, aux, state, ckpt, bwd,
                 grads, parents, log>>

\* the last pass is done: the sorted keys and values are handed back
SortJoin ==
  /\ pc = "sorting"
  /\ sorter.pass = RadixPassCount
  /\ fwd' = [fwd EXCEPT
               !.isect_ids_sorted = [shape |-> fwd.isect_ids_unsorted.shape,
                                     data |-> sorter.kv[1]],
               !.gaussian_ids_sorted = [shape |-> fwd.gaussian_ids_unsorted.shape,
                                        data |-> sorter.kv[2]]]
  /\ pc' = "sorted"
  /\ UNCHANGED <<inputs, fine, aux, state, ckpt, bwd, grads, parents, log>>

\* the sort reads neither the background nor the autodiff bookkeeping
SortInit == Init /\ background = 0 /\ prep_nodes = "UnTracked"

SortNext ==
  \/ CheckDims \/ Project \/ PrefixSum \/ ReadBack \/ MapIntersects
  \/ SortStart \/ SortPass \/ SortJoin

SortSpec == SortInit /\ [][SortNext]_vars

(***************************************************************************)
(* Import of a PLY file: load_splat_from_ply, update_splats and            *)
(* GaussianData::set_property (crates/brush/src/splat_import.rs).  The     *)
(* float values play no part: a vector is given by its length, a stored    *)
(* spherical-harmonic coefficient by the property that wrote it.           *)
(***************************************************************************)
\* largest vertex count of a PLY file explored
MaxVertices == 5

\* splat_import.rs:142 has 50000; the model sends an update every 2 splats
update_every == 2

\* num_sh_coeffs (brush_render::render, not in the source tree):
\* (degree + 1)^2 coefficients per channel
num_sh_coeffs(degree) == (degree + 1) * (degree + 1)

\* splat_import.rs:18
SH_COEFFS_PER_CHANNEL == num_sh_coeffs(3)

\* number of f_rest_* properties of a file with all higher-order coefficients
RestCount == (SH_COEFFS_PER_CHANNEL - 1) * 3

\* splat_import.rs:35-39
to_interleaved_idx(val) ==
  LET channel == val \div SH_COEFFS_PER_CHANNEL
      coeff == (val % (SH_COEFFS_PER_CHANNEL - 1)) + 1
  IN  coeff * 3 + channel

\* A slot of sh_coeffs holds 0 when nothing was written to it (0.0),
\* 10 + c for the value of f_dc_c and 100 + k for the value of f_rest_k.
\* splat_import.rs:48: sh_coeffs of GaussianData::new, then f_dc_0..2 set
\* (66-68), as the element has it before its first f_rest property
sh_coeffs_dc == << 10, 11, 12 >>

\* splat_import.rs:69-76: set_property for f_rest_<idx>
set_f_rest(sh, idx) ==
  LET interleaved == to_interleaved_idx(idx)
      resized == IF interleaved >= Len(sh)
                 THEN sh \o Filled(interleaved + 1 - Len(sh), 0)
                 ELSE sh
  IN  [resized EXCEPT ![interleaved + 1] = 100 + idx]

EmptyVecs == [means |-> 0, sh_coeffs |-> 0, rotation |-> 0, opacity |-> 0, scales |-> 0]

\* splat_import.rs:180-184
extend_vecs(v, sh) ==
  [means |-> v.means + 3, sh_coeffs |-> v.sh_coeffs + Len(sh),
   rotation |-> v.rotation + 4, opacity |-> v.opacity + 1,
   scales |-> v.scales + 3]

NoSplats == [some |-> FALSE, num_splats |-> 0]

\* splat_import.rs:93-94: n_splats = means.len() / 3 and the division
\* sh_coeffs.len() / n_splats, which panics when n_splats is zero
update_panics(v) == v.means \div 3 = 0

\* splat_import.rs:96-117: the splats after the update (for n_splats > 0)
update_splats(sp, v) ==
  IF sp.some
  THEN [some |-> TRUE, num_splats |-> sp.num_splats + v.means \div 3]
  ELSE [some |-> TRUE, num_splats |-> v.means \div 3]

Encodings == {"Ascii", "BinaryBigEndian", "BinaryLittleEndian"}

\* a PLY file: whether its header has a vertex element, the element's
\* count, the encoding, whether the eleven required properties are
\* declared, how many f_rest properties; no render call has begun
LoadInit ==
  /\ pc = "start"
  /\ camera = [width |-> 0, height |-> 0]
  /\ splats = <<>>
  /\ dims \in { d \in ShapeChoices(0) : ForwardDimCheck(d).ok }
  /\ background = 0
  /\ prep_nodes = "UnTracked"
  /\ fresh = 0
  /\ fwd = FwdInit
  /\ aux = NoAux
  /\ state = NoState
  /\ ckpt = [taken |-> <<>>, retrieved |-> <<>>]
  /\ bwd = BwdInit
  /\ grads = <<>>
  /\ parents = {}
  /\ log = <<>>
  /\ raster = NoRaster
  /\ calls = NoCalls
  /\ sorter = NoSort
  /\ app = NoApp
  /\ train = NoTrain
  /\ cube = NoCube
  /\ \E vertex \in BOOLEAN, count \in 0..MaxVertices, enc \in Encodings,
        props \in BOOLEAN, rest \in {0, RestCount} :
       /\ ~vertex => (count = 0 /\ ~props /\ rest = 0)
       /\ loader = [pc |-> "header", vertex |-> vertex, count |-> count,
                    encoding |-> enc,
                    min_props |-> props, rest |-> rest, i |-> 0,
                    vecs |-> EmptyVecs, splats |-> NoSplats, yielded |-> <<>>,
                    sh_coeffs |-> sh_coeffs_dc, next_rest |-> 0,
                    last_read |-> <<>>]

\* splat_import.rs:155-163: the required properties are looked for in the
\* vertex element; a header without one passes the loop untouched
LoadHeader ==
  /\ loader.pc = "header"
  /\ loader' = [loader EXCEPT !.pc = IF ~loader.vertex \/ loader.min_props
                                     THEN "reading"
                                     ELSE "err_missing_properties"]
  /\ UNCHANGED <<pc, inputs, raster, calls, sorter, app, train, cube, fwd, aux, state, ckpt, bwd,
                 grads, parents, log>>

\* splat_import.rs:52-81: the parser hands the next f_rest property of the
\* element it reads to set_property (the properties come in file order,
\* f_rest_0 first)
SetProperty ==
  /\ loader.pc = "reading"
  /\ loader.i < loader.count
  /\ loader.next_rest < loader.rest
  /\ loader' = [loader EXCEPT !.sh_coeffs = set_f_rest(@, loader.next_rest),
                              !.next_rest = @ + 1]
  /\ UNCHANGED <<pc, inputs, raster, calls, sorter, app, train, cube, fwd, aux, state, ckpt, bwd,
                 grads, parents, log>>

\* splat_import.rs:165-205: the element is read, the rest of this turn of
\* the loop over the elements
LoadElement ==
  /\ loader.pc = "reading"
  /\ loader.i < loader.count
  /\ loader.next_rest = loader.rest
  /\ LET sh == loader.sh_coeffs
         vecs == extend_vecs(loader.vecs, sh)
         read == [loader EXCEPT !.last_read = sh, !.i = @ + 1,
                                !.sh_coeffs = sh_coeffs_dc, !.next_rest = 0]
     IN  IF loader.i % update_every = update_every - 1
         THEN LET sp == update_splats(loader.splats, vecs)
              IN  loader' = [read EXCEPT !.splats = sp, !.vecs = EmptyVecs,
                                         !.yielded = Append(@, sp.num_splats)]
         ELSE loader' = [read EXCEPT !.vecs = vecs]
  /\ UNCHANGED <<pc, inputs, raster, calls, sorter, app, train, cube, fwd, aux, state, ckpt, bwd,
                 grads, parents, log>>

\* splat_import.rs:209-225: the update after the loop and the last yield
LoadFinish ==
  /\ loader.pc = "reading"
  /\ loader.i = loader.count
  /\ IF update_panics(loader.vecs)
     THEN loader' = [loader EXCEPT !.pc = "panic_divide_by_zero"]
     ELSE LET sp == update_splats(loader.splats, loader.vecs)
          IN  IF sp.num_splats = 0
              THEN loader' = [loader EXCEPT !.splats = sp, !.vecs = EmptyVecs,
                                            !.pc = "err_no_splats"]
              ELSE loader' = [loader EXCEPT !.splats = sp, !.vecs = EmptyVecs,
                                            !.yielded = Append(@, sp.num_splats),
                                            !.pc = "done"]
  /\ UNCHANGED <<pc, inputs, raster, calls, sorter, app, train, cube, fwd, aux, state, ckpt, bwd,
                 grads, parents, log>>

LoadNext == LoadHeader \/ SetProperty \/ LoadElement \/ LoadFinish

LoadSpec == LoadInit /\ [][LoadNext]_vars

(***************************************************************************)
(* The buffers bound to each piece of GPU work the host issues: what it    *)
(* reads and what it writes (the input and output handle lists of the      *)
(* execute calls in render.rs; for prefix_sum, radix_argsort and the       *)
(* readback their arguments and results).                                  *)
(***************************************************************************)
Bound(reads, writes) == [reads |-> reads, writes |-> writes]

Bindings ==
  \* render.rs:133-153
  "ProjectSplats" :>
      Bound({"means", "scales", "quats"},
            {"xys", "depths", "radii", "cov2ds", "num_tiles_hit"})
  \* render.rs:155
  @@ "prefix_sum" :> Bound({"num_tiles_hit"}, {"cum_tiles_hit"})
  \* render.rs:157-163
  @@ "read_buffer_to_u32" :> Bound({"cum_tiles_hit"}, {})
  \* render.rs:170-176
  @@ "MapGaussiansToIntersect" :>
      Bound({"xys", "radii", "cum_tiles_hit", "depths"},
            {"isect_ids_unsorted", "gaussian_ids_unsorted"})
  \* render.rs:178-182
  @@ "radix_argsort" :>
      Bound({"isect_ids_unsorted", "gaussian_ids_unsorted"},
            {"isect_ids_sorted", "gaussian_ids_sorted"})
  \* render.rs:189-195
  @@ "Zero:tile_bins" :> Bound({}, {"tile_bins"})
  \* render.rs:197-203
  @@ "GetTileBinEdges" :> Bound({"isect_ids_sorted"}, {"tile_bins"})
  \* render.rs:217-230
  @@ "Rasterize" :>
      Bound({"gaussian_ids_sorted", "tile_bins", "xys", "cov2ds", "colors",
             "opacity"},
            {"out_img", "final_index"})
  \* render.rs:309-336
  @@ "Zero:v_xy" :> Bound({}, {"v_xy"})
  @@ "Zero:v_conic" :> Bound({}, {"v_conic"})
  @@ "Zero:v_colors" :> Bound({}, {"v_colors"})
  @@ "Zero:v_opacity" :> Bound({}, {"v_opacity"})
  \* render.rs:338-362
  @@ "RasterizeBackwards" :>
      Bound({"gaussian_ids_sorted", "tile_bins", "xys", "cov2ds", "colors",
             "opacity", "final_index", "out_img", "v_output"},
            {"v_xy", "v_conic", "v_colors", "v_opacity"})
  \* render.rs:369-388
  @@ "ProjectBackwards" :>
      Bound({"means", "scales", "quats", "radii", "cov2ds", "v_xy", "v_conic",
             "v_opacity"},
            {"v_means", "v_scales", "v_quats"})

\* render.rs:390-412: what the gradient registrations hand over
RegisteredBuffers == {"v_means", "v_scales", "v_quats", "v_colors", "v_opacity"}

(***************************************************************************)
(* brush-app: App and AppContext (crates/brush-app/src/app.rs).  The       *)
(* running process sends ProcessMessages over a channel; App::update       *)
(* drains the channel in receive_messages.  Panes and other callers hold   *)
(* the context mutably and use its public methods.  The record app keeps,  *)
(* next to the program's fields, what has been processed so far: the       *)
(* messages since the last connect_to, the number of Dataset messages, of  *)
(* inserted DatasetPanel panes and of connect_to calls.                    *)
(***************************************************************************)
\* most messages sent over the lifetime of the App
MaxMessages == 3
\* most connect_to calls
MaxConnects == 2

\* the render call and the other programs at rest
Quiet ==
  /\ pc = "start"
  /\ camera = [width |-> 0, height |-> 0]
  /\ splats = <<>>
  /\ dims \in { d \in ShapeChoices(0) : ForwardDimCheck(d).ok }
  /\ background = 0
  /\ prep_nodes = "UnTracked"
  /\ fresh = 0
  /\ fwd = FwdInit
  /\ aux = NoAux
  /\ state = NoState
  /\ ckpt = [taken |-> <<>>, retrieved |-> <<>>]
  /\ bwd = BwdInit
  /\ grads = <<>>
  /\ parents = {}
  /\ log = <<>>
  /\ raster = NoRaster
  /\ calls = NoCalls
  /\ sorter = NoSort

\* ProcessMessage (brush_process::process_loop): the three kinds
\* receive_messages looks at and one standing for all others
ProcessMessages ==
  [kind : {"StartLoading", "DoneLoading"}, training : BOOLEAN]
    \cup { [kind |-> "Dataset", training |-> FALSE],
           [kind |-> "TrainStep", training |-> FALSE] }

CameraSettingsChoices == {"from_search_params", "from_settings_panel"}

\* variant: the camera settings start from their defaults again
AppContext_new_default(device, ctx, cam_settings) ==
  [ dataset |-> "empty", view_aspect |-> "None",
    model_local_to_world |-> "IDENTITY", device |-> device, ctx |-> ctx,
    loading |-> FALSE, training |-> FALSE, cam_settings |-> "from_search_params",
    running_process |-> 0 ]

\* app.rs:132-163
AppContext_new(device, ctx, cam_settings) ==
  [ dataset |-> "empty", view_aspect |-> "None",
    model_local_to_world |-> "IDENTITY", device |-> device, ctx |-> ctx,
    loading |-> FALSE, training |-> FALSE, cam_settings |-> cam_settings,
    running_process |-> 0 ]

\* variant: DoneLoading stores its training flag too
loading_flags_done_sets_training(c, m) ==
  CASE m.kind = "StartLoading" -> [c EXCEPT !.training = m.training, !.loading = TRUE]
    [] m.kind = "DoneLoading" -> [c EXCEPT !.training = m.training, !.loading = FALSE]
    [] OTHER -> c

\* app.rs:433-440: what a message does to the context
loading_flags(c, m) ==
  CASE m.kind = "StartLoading" -> [c EXCEPT !.training = m.training, !.loading = TRUE]
    [] m.kind = "DoneLoading" -> [c EXCEPT !.loading = FALSE]
    [] OTHER -> c

\* variant: a pane for every Dataset message
show_dataset_panel_always(a, m) ==
  IF m.kind = "Dataset"
  THEN [a EXCEPT !.datasets = a.inserted + 1, !.inserted = @ + 1]
  ELSE a

\* app.rs:419-432: the dataset panel is shown when the first dataset comes;
\* App.datasets is 0 for None, else the id of the pane
show_dataset_panel(a, m) ==
  IF m.kind = "Dataset" /\ a.datasets = 0
  THEN [a EXCEPT !.datasets = a.inserted + 1, !.inserted = @ + 1]
  ELSE a

\* app.rs:417-451: one turn of the loop over the drained messages
on_process_message(a, m) ==
  [show_dataset_panel(a, m) EXCEPT
     !.context = loading_flags(@, m),
     !.processed = Append(@, m),
     !.dataset_messages = @ + (IF m.kind = "Dataset" THEN 1 ELSE 0)]

RECURSIVE process_all(_, _)
process_all(a, messages) ==
  IF messages = <<>> THEN a
  ELSE process_all(on_process_message(a, Head(messages)), Tail(messages))

\* app.rs:243-402: App::new, with or without a start url
AppInit ==
  /\ Quiet
  /\ loader = NoLoad
  /\ train = NoTrain
  /\ cube = NoCube
  /\ \E settings \in CameraSettingsChoices, url \in BOOLEAN :
       app = [pc |-> "running",
              context |-> [AppContext_new("device", "egui_ctx", settings)
                             EXCEPT !.running_process = IF url THEN 1 ELSE 0],
              datasets |-> 0, inserted |-> 0, channel |-> <<>>,
              processed |-> <<>>, dataset_messages |-> 0, sent |-> 0,
              connects |-> IF url THEN 1 ELSE 0]

\* the running process sends a message
ProcessSends ==
  /\ app.pc = "running"
  /\ app.context.running_process # 0
  /\ app.sent < MaxMessages
  /\ \E m \in ProcessMessages :
       app' = [app EXCEPT !.channel = Append(@, m), !.sent = @ + 1]
  /\ UNCHANGED <<pc, inputs, raster, calls, sorter, loader, train, cube, fwd, aux,
                 state, ckpt, bwd, grads, parents, log>>

\* app.rs:405-452
receive_messages ==
  /\ app.pc = "running"
  /\ app.context.running_process # 0
  /\ app' = [process_all(app, app.channel) EXCEPT !.channel = <<>>]
  /\ UNCHANGED <<pc, inputs, raster, calls, sorter, loader, train, cube, fwd, aux,
                 state, ckpt, bwd, grads, parents, log>>

\* app.rs:208-221: the context is made anew and given the process; the
\* channel is the one of the new process
connect_to ==
  /\ app.pc = "running"
  /\ app.connects < MaxConnects
  /\ app' = [app EXCEPT
       !.context = [AppContext_new(app.context.device, app.context.ctx,
                                   app.context.cam_settings)
                      EXCEPT !.running_process = app.connects + 1],
       !.channel = <<>>,
       !.processed = <<>>,
       !.connects = @ + 1]
  /\ UNCHANGED <<pc, inputs, raster, calls, sorter, loader, train, cube, fwd, aux,
                 state, ckpt, bwd, grads, parents, log>>

\* app.rs:172-206 and the public fields (app.rs:114-120): what a pane does
\* with the context it is handed: set_cam_settings, set_model_up,
\* focus_view, a dataset stored
PaneUsesContext ==
  /\ app.pc = "running"
  /\ \/ \E s \in CameraSettingsChoices : app' = [app EXCEPT !.context.cam_settings = s]
     \/ app' = [app EXCEPT !.context.model_local_to_world = "rotated"]
     \/ app' = [app EXCEPT !.context.view_aspect = "Some"]
     \/ app' = [app EXCEPT !.context.dataset = "loaded"]
  /\ UNCHANGED <<pc, inputs, raster, calls, sorter, loader, train, cube, fwd, aux,
                 state, ckpt, bwd, grads, parents, log>>

AppNext == ProcessSends \/ receive_messages \/ connect_to \/ PaneUsesContext

AppSpec == AppInit /\ [][AppNext]_vars

(***************************************************************************)
(* train-2d (crates/train-2d/src/main.rs).  A spawned task trains in a     *)
(* loop and sends a TrainStep after every iteration over a bounded         *)
(* channel; App::update, on the UI thread, takes what the channel holds.   *)
(* A TrainStep is represented by its iter.  The record train keeps, next   *)
(* to the program's state, the iters the UI has received and the iter and  *)
(* number of sends at the moment the receiver was dropped.                 *)
(***************************************************************************)
\* most iterations of the training loop explored
MaxIter == 7
\* capacity of the channel, main.rs:138 (32 in the source, scaled)
channel_capacity == 2

\* main.rs:138-158: App::new makes the channel and spawns the training
\* task with iter = 0; last_step is 0 for None
TrainInit ==
  /\ Quiet
  /\ loader = NoLoad
  /\ app = NoApp
  /\ cube = NoCube
  /\ train = [pc |-> "running", task |-> "stepping", iter |-> 0,
              channel |-> <<>>, last_step |-> 0, dropped |-> FALSE,
              received |-> <<>>, sent |-> 0,
              at_drop |-> [iter |-> 0, sent |-> 0]]

\* main.rs:69-78: one training step, then iter += 1 and request_repaint
TaskStep ==
  /\ train.pc = "running"
  /\ train.task = "stepping"
  /\ train.iter < MaxIter
  /\ train' = [train EXCEPT !.iter = @ + 1, !.task = "sending"]
  /\ UNCHANGED <<pc, inputs, raster, calls, sorter, loader, app, cube, fwd, aux,
                 state, ckpt, bwd, grads, parents, log>>

\* variant: a step that finds the channel full is thrown away
TaskSend_lossy ==
  /\ train.pc = "running"
  /\ train.task = "sending"
  /\ IF train.dropped
     THEN train' = [train EXCEPT !.task = "exited"]
     ELSE IF Len(train.channel) < channel_capacity
          THEN train' = [train EXCEPT !.channel = Append(@, train.iter),
                                      !.sent = @ + 1,
                                      !.task = "stepping"]
          ELSE train' = [train EXCEPT !.task = "stepping"]
  /\ UNCHANGED <<pc, inputs, raster, calls, sorter, loader, app, cube, fwd, aux,
                 state, ckpt, bwd, grads, parents, log>>

\* main.rs:80-90: sender.send(..).await: the step enters the channel when
\* there is room, the task waits while the channel is full, and the send
\* fails, ending the loop, when the receiver is gone
TaskSend ==
  /\ train.pc = "running"
  /\ train.task = "sending"
  /\ train.dropped \/ Len(train.channel) < channel_capacity
  /\ IF train.dropped
     THEN train' = [train EXCEPT !.task = "exited"]
     ELSE train' = [train EXCEPT !.channel = Append(@, train.iter),
                                 !.sent = @ + 1,
                                 !.task = "stepping"]
  /\ UNCHANGED <<pc, inputs, raster, calls, sorter, loader, app, cube, fwd, aux,
                 state, ckpt, bwd, grads, parents, log>>

\* main.rs:166-174: App::update takes every step the channel holds, each
\* replacing last_step
update ==
  /\ train.pc = "running"
  /\ ~train.dropped
  /\ train' = [train EXCEPT
       !.last_step = IF train.channel = <<>> THEN @
                     ELSE train.channel[Len(train.channel)],
       !.received = @ \o train.channel,
       !.channel = <<>>]
  /\ UNCHANGED <<pc, inputs, raster, calls, sorter, loader, app, cube, fwd, aux,
                 state, ckpt, bwd, grads, parents, log>>

\* the App, and with it the receiver (main.rs:99), is dropped; what the
\* channel holds is lost
DropReceiver ==
  /\ train.pc = "running"
  /\ ~train.dropped
  /\ train' = [train EXCEPT !.dropped = TRUE, !.channel = <<>>,
                            !.at_drop = [iter |-> train.iter, sent |-> train.sent]]
  /\ UNCHANGED <<pc, inputs, raster, calls, sorter, loader, app, cube, fwd, aux,
                 state, ckpt, bwd, grads, parents, log>>

TrainNext == TaskStep \/ TaskSend \/ update \/ DropReceiver

TrainSpec == TrainInit /\ [][TrainNext]_vars

(***************************************************************************)
(* calc_cube_count on its own (brush-kernel lib.rs:17-23): a call with one *)
(* to three or no sizes and a workgroup size of at least one thread in     *)
(* each dimension.                                                         *)
(***************************************************************************)
\* largest size handed to calc_cube_count
MaxSize == 5
\* largest workgroup extent
MaxGroup == 3

SizeArrays == UNION { [1..d -> 0..MaxSize] : d \in 0..3 }

CubeInit ==
  /\ Quiet
  /\ loader = NoLoad
  /\ app = NoApp
  /\ train = NoTrain
  /\ \E sizes \in SizeArrays, workgroup_size \in [1..3 -> 1..MaxGroup] :
       cube = [pc |-> "called", sizes |-> sizes,
               workgroup_size |-> workgroup_size, count |-> <<>>]

CalcCubeCount ==
  /\ cube.pc = "called"
  /\ cube' = [cube EXCEPT !.pc = "returned",
                          !.count = calc_cube_count(cube.sizes, cube.workgroup_size)]
  /\ UNCHANGED <<pc, inputs, raster, calls, sorter, loader, app, train, fwd, aux,
                 state, ckpt, bwd, grads, parents, log>>

CubeSpec == CubeInit /\ [][CalcCubeCount]_vars

(***************************************************************************)
(* Properties.                                                             *)
(***************************************************************************)
Stages ==
  << "start", "checked", "projected", "scanned", "sized", "mapped", "sorted",
     "binned", "rasterized", "returned", "bwd_retrieved", "bwd_zeroed",
     "bwd_rasterized", "bwd_projected", "bwd_done" >>

StageNo(p) == CHOOSE i \in 1..Len(Stages) : Stages[i] = p

\* the host thread has completed the step that leads to position p
Reached(p) ==
  /\ \E i \in 1..Len(Stages) : Stages[i] = pc
  /\ StageNo(pc) >= StageNo(p)

Occurrences(q, x) == Cardinality({ i \in DOMAIN q : q[i] = x })

\* colour of a pixel that shows nothing but the background
BackgroundColour == background * ONE * T_ONE

\* smallest c with c * TILE_WIDTH >= a
CeilTiles(a) ==
  CHOOSE c \in 0..a : c * TILE_WIDTH >= a /\ \A d \in 0..(c - 1) : d * TILE_WIDTH < a

ResolutionOk == camera.width > 0 /\ camera.height > 0

\* C1: a forward call with zero splats (well-shaped inputs, positive
\* resolution) does not panic, and when it has returned every pixel of the
\* image equals the background colour.
C1_ZeroSplatsRenderBackground ==
  (dims.means[1] = 0 /\ ForwardDimCheck(dims).ok /\ ResolutionOk)
    => /\ pc \notin {"dim_panic", "readback_panic"}
       /\ Reached("returned")
            => \A e \in DOMAIN fwd.out_img.data :
                 fwd.out_img.data[e] = BackgroundColour

TileIds == 0..(fwd.tile_bounds[1] * fwd.tile_bounds[2] - 1)

InBin(t, idx) == BinStart(fwd.tile_bins, t) <= idx /\ idx < BinEnd(fwd.tile_bins, t)

KeyDepth(k) == k % Pow2(DEPTH_BITS)

LexLeq(k1, k2) ==
  \/ KeyTile(k1) < KeyTile(k2)
  \/ KeyTile(k1) = KeyTile(k2) /\ KeyDepth(k1) <= KeyDepth(k2)

Paired(keys, ids) == [i \in 1..Len(keys.data) |-> <<keys.data[i], ids.data[i]>>]

C4_SortedByTileThenDepth ==
  Reached("sorted")
    => /\ Len(fwd.isect_ids_sorted.data) = Len(fwd.isect_ids_unsorted.data)
       /\ Len(fwd.gaussian_ids_sorted.data) = Len(fwd.isect_ids_unsorted.data)
       /\ \A i \in 1..(Len(fwd.isect_ids_sorted.data) - 1) :
            LexLeq(fwd.isect_ids_sorted.data[i], fwd.isect_ids_sorted.data[i + 1])
       /\ LET before == Paired(fwd.isect_ids_unsorted, fwd.gaussian_ids_unsorted)
              after == Paired(fwd.isect_ids_sorted, fwd.gaussian_ids_sorted)
          IN  \A r \in Range(before) \cup Range(after) :
                Occurrences(before, r) = Occurrences(after, r)

C4_Witness ==
  /\ pc = "sorted"
  /\ Len(fwd.isect_ids_unsorted.data) >= 4
  /\ \E i \in 1..(Len(fwd.isect_ids_unsorted.data) - 1) :
       ~LexLeq(fwd.isect_ids_unsorted.data[i], fwd.isect_ids_unsorted.data[i + 1])
  /\ \E i, j \in DOMAIN fwd.isect_ids_sorted.data :
       /\ i # j
       /\ fwd.isect_ids_sorted.data[i] = fwd.isect_ids_sorted.data[j]

\* C5: for every resolution the tile grid handed to the projector and the
\* mapper and used to size tile_bins has ceil(width / TILE_WIDTH) by
\* ceil(height / TILE_WIDTH) tiles, so that every pixel lies in a tile of
\* the grid.
C5_TileGridCoversImage ==
  Reached("projected")
    => /\ fwd.tile_bounds = <<CeilTiles(camera.width), CeilTiles(camera.height)>>
       /\ \A px \in 0..(camera.width - 1), py \in 0..(camera.height - 1) :
            /\ px \div TILE_WIDTH < fwd.tile_bounds[1]
            /\ py \div TILE_WIDTH < fwd.tile_bounds[2]
       /\ Reached("binned")
            => fwd.tile_bins.shape =
                 <<CeilTiles(camera.width), CeilTiles(camera.height), 2>>

\* C6: when an input is tracked, forward has checkpointed each of the five
\* inputs exactly once when it returns, and backward retrieves exactly
\* those five checkpoints.
C6_FiveCheckpoints ==
  /\ (prep_nodes = "Tracked" /\ Reached("returned"))
       => /\ Len(ckpt.taken) = 5
          /\ \A nm \in Inputs : Occurrences(ckpt.taken, nm) = 1
  /\ ~Reached("returned") => ckpt.taken = <<>>
  /\ Reached("bwd_retrieved")
       => /\ Len(ckpt.retrieved) = 5
          /\ \A nm \in Inputs : Occurrences(ckpt.retrieved, nm) = 1
          /\ Range(ckpt.retrieved) = Range(ckpt.taken)
  /\ ~Reached("bwd_retrieved") => ckpt.retrieved = <<>>

C6_Witness ==
  /\ pc = "bwd_retrieved"
  /\ prep_nodes = "Tracked"
  /\ Len(ckpt.taken) = 5
  /\ Len(ckpt.retrieved) = 5

\* C7: backward registers a gradient for an input exactly when the input's
\* parent node is present, at most once, under that parent's node id and
\* with the gradient buffer computed for that input.
ExpectedGrad ==
  [ means |-> "v_means", scales |-> "v_scales", quats |-> "v_quats",
    colors |-> "v_colors", opacity |-> "v_opacity" ]

GradNames == {"v_means", "v_scales", "v_quats", "v_colors", "v_opacity"}

Culled(i) == fwd.num_tiles_hit.data[i] = 0

C9_GradientShapes ==
  pc = "bwd_done"
    => \A k \in DOMAIN grads :
         /\ grads[k].tensor.shape = dims[grads[k].id]
         /\ grads[k].id = "opacity" => grads[k].tensor.shape = <<fwd.num_points>>

C9_Witness ==
  /\ pc = "bwd_done"
  /\ parents = Inputs
  /\ Len(grads) = 5
  /\ fwd.num_points = 2

\* C10: a forward call whose inputs violate a precondition (shapes that do
\* not agree, zero width or height) is rejected before any GPU work: it
\* issues no allocation and no dispatch.
PreconditionViolated == ~ForwardDimCheck(dims).ok \/ ~ResolutionOk

C10_FailFastBeforeGpuWork ==
  PreconditionViolated => (log = <<>> /\ pc \in {"start", "dim_panic"})

\* C11: a forward call whose inputs have the documented shapes (means
\* [N,3], scales [N,3], quaternions [N,4], colors [N,3], opacities [N])
\* passes the shape check, and the image it produces has shape [H,W,4].
DocumentedShapes ==
  /\ dims.means = <<Len(splats), 3>>
  /\ dims.scales = <<Len(splats), 3>>
  /\ dims.quats = <<Len(splats), 4>>
  /\ dims.colors = <<Len(splats), 3>>
  /\ dims.opacity = <<Len(splats)>>

C11_DocumentedShapesAccepted ==
  DocumentedShapes
    => /\ pc # "dim_panic"
       /\ Reached("rasterized")
            => fwd.out_img.shape = <<camera.height, camera.width, 4>>

\* the pixels of the image, as (x, y), and the element of out_img /
\* final_index that belongs to a pixel
Pixels == (0..(camera.width - 1)) \X (0..(camera.height - 1))

PixelElem(p) == p[2] * camera.width + p[1] + 1

\* a thread of the Rasterize dispatch has the pixel as its global id
Dispatched(p) == HasThread(raster_dispatch(camera), p[1], p[2])

\* the range of the tile that contains pixel p, as stored in tile_bins
PixelBin(p, oob) ==
  LET t == PixelTile(img_size(camera), p[1], p[2])
  IN  [start |-> ReadBuf(fwd.tile_bins.data, 2 * t + 1, oob),
       end |-> ReadBuf(fwd.tile_bins.data, 2 * t + 2, oob)]

\* compositing of the records idx .. last, without any early exit
RECURSIVE Replay(_, _, _, _, _)
Replay(p, idx, last, T, col) ==
  IF idx > last \/ idx >= Len(fwd.gaussian_ids_sorted.data)
  THEN [T |-> T, col |-> col]
  ELSE LET g == fwd.gaussian_ids_sorted.data[idx + 1]
           a == Alpha(fwd, splats, g, p[1], p[2])
       IN  IF a = 0
           THEN Replay(p, idx + 1, last, T, col)
           ELSE Replay(p, idx + 1, last, (T * (ONE - a)) \div ONE,
                       col + a * T * splats[g + 1].color)

ReplayAgrees(p) ==
  \E oob \in OobModes :
    LET bin == PixelBin(p, oob)
        fin == fwd.final_index.data[PixelElem(p)]
    IN  fwd.out_img.data[PixelElem(p)] =
          Blend(Replay(p, bin.start, Min(fin, bin.end - 1), T_ONE, 0), background)

\* C12: for every pixel, compositing the records from its tile's bin start
\* up to and including the recorded final_index and blending the
\* background with the transmittance that is left gives the colour the
\* forward pass stored for the pixel.
C12_FinalIndexReplay ==
  Reached("rasterized") => \A p \in Pixels : ReplayAgrees(p)

\* the same for the pixels a rasteriser thread ran for
ReplayAgreesWhereDispatched ==
  Reached("rasterized") => \A p \in Pixels : Dispatched(p) => ReplayAgrees(p)

\* no record of the pixel's tile bin has non-zero alpha at the pixel
ZeroContributions(p, bin) ==
  \A idx \in bin.start..(bin.end - 1) :
    idx < Len(fwd.gaussian_ids_sorted.data)
      => Alpha(fwd, splats, fwd.gaussian_ids_sorted.data[idx + 1], p[1], p[2]) = 0

SentinelStored(p) ==
  \E oob \in OobModes :
    /\ ZeroContributions(p, PixelBin(p, oob))
         => fwd.final_index.data[PixelElem(p)] = PixelBin(p, oob).start

\* C13: after the forward rasteriser every pixel that received no
\* contribution (its tile's bin is empty or no record of the bin has
\* non-zero alpha at the pixel) has final_index equal to the start of its
\* tile's bin range.
C13_ZeroContributionSentinel ==
  Reached("rasterized") => \A p \in Pixels : SentinelStored(p)

\* the same for the pixels a rasteriser thread ran for
SentinelWhereDispatched ==
  Reached("rasterized") => \A p \in Pixels : Dispatched(p) => SentinelStored(p)

\* the backward thread of pixel p exists and takes p to lie inside the image
BackwardRuns(p) ==
  /\ HasThread(raster_dispatch(state.cam), p[1], p[2])
  /\ p[1] < bwd_img_size(state.cam)[1]
  /\ p[2] < bwd_img_size(state.cam)[2]

\* C14: the backward rasteriser works on exactly the final_index, sorted
\* splat ids, tile bins and output image the paired forward call produced,
\* and for each pixel its reverse walk starts at the final_index the
\* forward pass recorded for that pixel and ends at the start of the
\* pixel's tile bin.
C14_BackwardWalksForwardRecord ==
  state.kept
    => /\ state.final_index = fwd.final_index
       /\ state.gaussian_ids_sorted = fwd.gaussian_ids_sorted
       /\ state.tile_bins = fwd.tile_bins
       /\ state.out_img = fwd.out_img
       /\ Reached("bwd_rasterized")
            => \A p \in Pixels :
                 /\ BackwardRuns(p)
                 /\ \E oob \in OobModes :
                      LET walk == BackwardWalk(state, bwd_img_size(state.cam),
                                               p[1], p[2], oob)
                      IN  /\ walk.fin = fwd.final_index.data[PixelElem(p)]
                          /\ walk.start = PixelBin(p, oob).start

\* the same for cameras with width = height
BackwardWalkOnSquareImages ==
  (state.kept /\ camera.width = camera.height /\ Reached("bwd_rasterized"))
    => \A p \in Pixels :
         /\ BackwardRuns(p)
         /\ \E oob \in OobModes :
              LET walk == BackwardWalk(state, bwd_img_size(state.cam),
                                       p[1], p[2], oob)
              IN  /\ walk.fin = fwd.final_index.data[PixelElem(p)]
                  /\ walk.start = PixelBin(p, oob).start

\* the buffers a forward call leaves for the splats sp (one or more) under
\* the camera and background of the state: the forward steps in sequence
RenderOf(sp, oob) ==
  LET n == Len(sp)
      tb == tile_bounds(camera)
      f1 == ProjectSplats(
              [FwdInit EXCEPT
                 !.num_points = n,
                 !.tile_bounds = tb,
                 !.radii = create_tensor(<<n>>, n),
                 !.depths = create_tensor(<<n>>, n),
                 !.xys = create_tensor(<<n, 2>>, n),
                 !.cov2ds = create_tensor(<<n, 4>>, n),
                 !.num_tiles_hit = create_tensor(<<n>>, n)], sp, tb)
      f2 == [f1 EXCEPT !.cum_tiles_hit = prefix_sum(f1.num_tiles_hit)]
      k == read_last(int_slice(f2.cum_tiles_hit, last_elem_range(n)))
      f3 == MapGaussiansToIntersect(
              [f2 EXCEPT
                 !.num_intersects = k,
                 !.isect_ids_unsorted = create_tensor(<<k>>, k),
                 !.gaussian_ids_unsorted = create_tensor(<<k>>, k)], tb)
      f4 == [f3 EXCEPT !.isect_ids_sorted = SortCall(f3)[1],
                       !.gaussian_ids_sorted = SortCall(f3)[2]]
      shp == tile_bins_shape(tb)
      f5 == [f4 EXCEPT !.tile_bins =
               GetTileBinEdges(ClearTileBins(create_tensor(shp, num_elements(shp))),
                               f4.isect_ids_sorted,
                               Min(k, Len(f4.isect_ids_sorted.data)))]
      px == camera.height * camera.width
  IN  Rasterize([f5 EXCEPT
                   !.out_img = create_tensor(out_img_shape(camera), px),
                   !.final_index = create_tensor(final_index_shape(camera), px)],
                sp, img_size(camera), background, raster_dispatch(camera), oob)

\* the state's forward call is the forward steps in sequence
RenderOfIsForward ==
  pc = "rasterized" => \E oob \in OobModes : fwd = RenderOf(splats, oob)

\* the splats with the depths of splats i and j exchanged
DepthsSwapped(i, j) ==
  [splats EXCEPT ![i].depth = splats[j].depth, ![j].depth = splats[i].depth]

\* splats i and j are both visible, differ in colour and in depth, and
\* both have non-zero alpha at pixel p
OverlapAt(i, j, p) ==
  /\ splats[i].color # splats[j].color
  /\ splats[i].depth # splats[j].depth
  /\ splats[i].depth > 0 /\ splats[j].depth > 0
  /\ Alpha(fwd, splats, i - 1, p[1], p[2]) > 0
  /\ Alpha(fwd, splats, j - 1, p[1], p[2]) > 0

SwapChangesColour(i, j, p) ==
  \A oob \in OobModes :
    fwd = RenderOf(splats, oob)
      => RenderOf(DepthsSwapped(i, j), oob).out_img.data[PixelElem(p)]
           # fwd.out_img.data[PixelElem(p)]

\* C16: when two splats of different colours overlap a pixel with non-zero
\* alpha, rendering with their depths exchanged (everything else as
\* before) gives a different colour at that pixel.
C16_DepthSwapChangesColour ==
  pc = "rasterized"
    => \A i, j \in DOMAIN splats : \A p \in Pixels :
         (i < j /\ OverlapAt(i, j, p)) => SwapChangesColour(i, j, p)

\* the same for cameras whose tile grid has as many columns as rows
DepthSwapOnSquareGrids ==
  (pc = "rasterized" /\
     div_ceil(camera.width, TILE_WIDTH) = div_ceil(camera.height, TILE_WIDTH))
    => \A i, j \in DOMAIN splats : \A p \in Pixels :
         (i < j /\ OverlapAt(i, j, p)) => SwapChangesColour(i, j, p)

\* the ways a stage of the forward call fails
ShapeCheckFailed == pc # "start" /\ ~ForwardDimCheck(dims).ok

ReadbackFailed ==
  /\ pc \notin {"start", "checked", "dim_panic", "projected", "scanned"}
  /\ int_slice(fwd.cum_tiles_hit, last_elem_range(fwd.num_points)) = <<>>

AllocationFailed == pc = "alloc_panic"

\* the call has handed nothing to its caller and kept nothing for backward
NothingReturned ==
  /\ aux = NoAux
  /\ state = NoState
  /\ ckpt.taken = <<>>
  /\ fwd.out_img = NoTensor
  /\ bwd = BwdInit /\ grads = <<>>

\* the dispatched GPU work ends with the given entry
LogEndsWith(entry) == log # <<>> /\ log[Len(log)] = entry

C17_WitnessReadback ==
  /\ pc = "readback_panic"
  /\ LogEndsWith("prefix_sum")

\* positions in the log of GPU work at which the host blocks on the device
Readbacks == { i \in DOMAIN log : log[i] = "read_buffer_to_u32" }

LogPositions(entry) == { i \in DOMAIN log : log[i] = entry }

\* C18: a forward call blocks on the device exactly once, to read back the
\* total of the scan: after the prefix sum has been dispatched and before
\* the intersection buffers are reserved; the backward call does not block
\* on the device at all.
C18_SingleBlockingReadback ==
  /\ Cardinality(Readbacks) <= 1
  /\ Reached("sized") => Cardinality(Readbacks) = 1
  /\ \A i \in Readbacks :
       /\ \E j \in LogPositions("prefix_sum") : j < i
       /\ \A j \in LogPositions("create:isect_ids_unsorted")
                     \cup LogPositions("create:gaussian_ids_unsorted") : i < j
       /\ \A j \in LogPositions("Rasterize") : i < j
  /\ LogPositions("create:isect_ids_unsorted") # {} => Readbacks # {}

C18_Witness ==
  /\ pc = "bwd_done"
  /\ Cardinality(Readbacks) = 1
  /\ log[9] = "read_buffer_to_u32"
  /\ LogEndsWith("ProjectBackwards")

\* what the Rasterize dispatch computes from the buffers it reads
RasterReference ==
  LET px == camera.height * camera.width
  IN  Rasterize([fwd EXCEPT
                   !.out_img = create_tensor(out_img_shape(camera), px),
                   !.final_index = create_tensor(final_index_shape(camera), px)],
                splats, img_size(camera), background, raster_dispatch(camera),
                raster.oob)

\* C15: whatever the order in which the pixel threads of the Rasterize
\* dispatch run, a pixel whose thread has run holds the colour and final
\* index that depend on the inputs alone, a pixel whose thread has not run
\* is untouched, and so the completed dispatch leaves the same out_img and
\* final_index for every order.
C15_PixelOrderIndependence ==
  pc \in {"rasterizing", "rasterized"}
    => /\ \A p \in Pixels :
            IF p \in raster.pending
            THEN /\ fwd.out_img.data[PixelElem(p)] = fresh
                 /\ fwd.final_index.data[PixelElem(p)] = fresh
            ELSE /\ fwd.out_img.data[PixelElem(p)]
                      = RasterReference.out_img.data[PixelElem(p)]
                 /\ fwd.final_index.data[PixelElem(p)]
                      = RasterReference.final_index.data[PixelElem(p)]
       /\ pc = "rasterized"
            => /\ fwd.out_img = RasterReference.out_img
               /\ fwd.final_index = RasterReference.final_index

C15_Witness ==
  /\ pc = "rasterized"
  /\ Cardinality(RasterThreads(camera)) = 4
  /\ fresh = NOISE
  /\ fwd.num_intersects >= 2
  /\ \A p \in Pixels :
       /\ fwd.final_index.data[PixelElem(p)] >= 1
       /\ fwd.out_img.data[PixelElem(p)] # BackgroundColour


\* the handles call c has reserved in a phase so far
Held(c, phase) ==
  { calls.call[c].env[n] : n \in Reserved(phase) } \ {0}

\* C19: forward calls in flight at the same time work on disjoint sets of
\* buffers (projection buffers, tile-hit counts, scan, intersection
\* arrays, tile_bins, out_img, final_index): each writes only buffers it
\* reserved itself; and a backward call writes only buffers it reserved
\* itself, never a buffer of its own or of another forward call.
C19_DisjointBufferSets ==
  /\ \A c, d \in Calls :
       c # d => /\ Held(c, "forward") \cap Held(d, "forward") = {}
                /\ Held(c, "backward") \cap Held(d, "backward") = {}
                /\ WritesOf(c, "forward") \cap WritesOf(d, "forward") = {}
  /\ \A c, d \in Calls :
       /\ WritesOf(c, "forward") \subseteq Held(c, "forward")
       /\ WritesOf(c, "backward") \subseteq Held(c, "backward")
       /\ WritesOf(c, "backward") \cap Held(d, "forward") = {}

\* both calls have run forward and backward, and their reservations were
\* interleaved
C19_Witness ==
  /\ \A c \in Calls : calls.call[c].pos = Len(Program)
  /\ calls.call["a"].env["radii"] < calls.call["b"].env["radii"]
  /\ calls.call["b"].env["tile_bins"] < calls.call["a"].env["tile_bins"]
  /\ calls.call["b"].env["v_xy"] < calls.call["a"].env["out_img"]
  /\ Cardinality(WritesOf("a", "backward")) = 7

\* C20: no step of a forward or backward call writes one of the five input
\* buffers (means, scales, quats, colors, opacity): they are bound for
\* reading only, so what they hold after a call is what they held before.
C20_InputsReadOnly ==
  /\ \A c \in Calls : \A ph \in {"forward", "backward"} :
       WritesOf(c, ph) \cap InputHandles = {}
  /\ \A c \in Calls : \A nm \in Inputs : calls.call[c].env[nm] = InputHandle[nm]

\* both calls have read the inputs, in forward and in backward
C20_Witness ==
  /\ \A c \in Calls : calls.call[c].pos = Len(Program)
  /\ \A c \in Calls :
       /\ {InputHandle[nm] : nm \in {"means", "scales", "quats"}}
            \subseteq ReadsOf(c, "forward") \cap ReadsOf(c, "backward")
       /\ InputHandles \subseteq ReadsOf(c, "forward") \cup ReadsOf(c, "backward")


\* C21: once the intersection mapper has run, every splat i has written
\* exactly tile_hit_count[i] records, into the slots
\* [offset_i, offset_i + tile_hit_count[i]) that start at its write offset
\* from the scan and lie inside [0, num_intersects); every slot of
\* [0, num_intersects) was written by exactly one splat and holds that
\* splat's key with the splat's id beside it.
SlotsOf(i) ==
  { j \in 0..(Len(fwd.isect_ids_unsorted.data) - 1) :
      i \in Writers(fwd, fwd.tile_bounds, j) }

SequentialSum(d, upto) == SumSeq(SubSeq(d, 1, upto))

SourceSlot(key, id) ==
  CHOOSE i \in DOMAIN fwd.isect_ids_unsorted.data :
    /\ fwd.isect_ids_unsorted.data[i] = key
    /\ fwd.gaussian_ids_unsorted.data[i] = id

StableOrder(keys, ids) ==
  /\ Len(keys) = Len(fwd.isect_ids_unsorted.data)
  /\ Len(ids) = Len(fwd.isect_ids_unsorted.data)
  /\ \A a \in DOMAIN keys :
       \E i \in DOMAIN fwd.isect_ids_unsorted.data :
         /\ fwd.isect_ids_unsorted.data[i] = keys[a]
         /\ fwd.gaussian_ids_unsorted.data[i] = ids[a]
  /\ \A a, b \in DOMAIN keys :
       (a < b /\ keys[a] = keys[b])
         => SourceSlot(keys[a], ids[a]) < SourceSlot(keys[b], ids[b])

ForwardRuns(p) ==
  /\ HasThread(raster_dispatch(camera), p[1], p[2])
  /\ p[1] < img_size(camera)[1]
  /\ p[2] < img_size(camera)[2]

C24_SameImageSizeBothWays ==
  Reached("bwd_projected")
    => /\ bwd_img_size(state.cam) = img_size(camera)
       /\ project_bwd_img_size(state.cam) = img_size(camera)
       /\ \A p \in Pixels :
            /\ ForwardRuns(p)
            /\ BackwardRuns(p)
            /\ PixelTile(bwd_img_size(state.cam), p[1], p[2])
                 = PixelTile(img_size(camera), p[1], p[2])
            /\ \A oob \in OobModes :
                 BackwardWalk(state, bwd_img_size(state.cam), p[1], p[2], oob).fin
                   = fwd.final_index.data[PixelSlot(img_size(camera), p[1], p[2])]

\* the same for cameras whose width and height are equal
SameImageSizeOnSquareImages ==
  (Reached("bwd_projected") /\ camera.width = camera.height)
    => /\ bwd_img_size(state.cam) = img_size(camera)
       /\ project_bwd_img_size(state.cam) = img_size(camera)
       /\ \A p \in Pixels :
            /\ ForwardRuns(p)
            /\ BackwardRuns(p)
            /\ PixelTile(bwd_img_size(state.cam), p[1], p[2])
                 = PixelTile(img_size(camera), p[1], p[2])
            /\ \A oob \in OobModes :
                 BackwardWalk(state, bwd_img_size(state.cam), p[1], p[2], oob).fin
                   = fwd.final_index.data[PixelSlot(img_size(camera), p[1], p[2])]

\* C25: loading a well-formed PLY file whose vertex element has C >= 1
\* entries ends without error or panic, and the Splats yielded last hold
\* exactly C splats; also when C is a multiple of the update interval and
\* the update after the loop is handed empty vectors.
WellFormedPly == loader.pc # "idle" /\ loader.min_props /\ loader.count >= 1

LoadFailed ==
  loader.pc \in {"err_missing_properties", "err_no_splats", "panic_divide_by_zero"}

C25_LoadYieldsAllSplats ==
  WellFormedPly
    => /\ ~LoadFailed
       /\ loader.pc = "done"
            => /\ loader.yielded # <<>>
               /\ loader.yielded[Len(loader.yielded)] = loader.count

\* the same for counts that are not a multiple of the update interval
LoadYieldsAllSplatsOffInterval ==
  (WellFormedPly /\ loader.count % update_every # 0)
    => /\ ~LoadFailed
       /\ loader.pc = "done"
            => /\ loader.yielded # <<>>
               /\ loader.yielded[Len(loader.yielded)] = loader.count

\* C26: to_interleaved_idx sends the 45 indices of f_rest_0 .. f_rest_44 to
\* 45 pairwise distinct slots of sh_coeffs, all inside [3, 48) and none a
\* DC slot, so that in a splat read from a file with all 45 properties
\* every f_rest value and every f_dc value is still in its slot.
RestIndices == 0..(RestCount - 1)

AllRestRead == loader.pc # "idle" /\ loader.rest = RestCount /\ loader.last_read # <<>>

C26_InterleavedSlotsDistinct ==
  AllRestRead
    => /\ \A k \in RestIndices :
            /\ to_interleaved_idx(k) >= 3
            /\ to_interleaved_idx(k) < 3 * SH_COEFFS_PER_CHANNEL
            /\ loader.last_read[to_interleaved_idx(k) + 1] = 100 + k
       /\ \A k1, k2 \in RestIndices :
            k1 # k2 => to_interleaved_idx(k1) # to_interleaved_idx(k2)
       /\ SubSeq(loader.last_read, 1, 3) = sh_coeffs_dc

\* the part that does hold: every f_rest value lands inside [3, 48) and
\* leaves the DC slots alone
RestSlotsInsideRange ==
  AllRestRead
    => /\ \A k \in RestIndices :
            /\ to_interleaved_idx(k) >= 3
            /\ to_interleaved_idx(k) < 3 * SH_COEFFS_PER_CHANNEL
       /\ Len(loader.last_read) = 3 * SH_COEFFS_PER_CHANNEL
       /\ SubSeq(loader.last_read, 1, 3) = sh_coeffs_dc

\* C27: within a forward call the stages are dispatched in the order
\* projector, prefix sum, scan-total readback, intersection mapper, radix
\* sort, tile-bin zeroing, tile-range extractor, rasterizer; within a
\* backward call in the order accumulator zeroing, rasterizer backward,
\* projector backward, gradient registration; and no stage is dispatched
\* before every stage that writes one of its input buffers.
StageOf(entry) ==
  CASE entry = "ProjectSplats" -> "projector"
    [] entry = "prefix_sum" -> "prefix sum"
    [] entry = "read_buffer_to_u32" -> "scan-total readback"
    [] entry = "MapGaussiansToIntersect" -> "intersection mapper"
    [] entry = "radix_argsort" -> "radix sort"
    [] entry = "Zero:tile_bins" -> "tile-bin zeroing"
    [] entry = "GetTileBinEdges" -> "tile-range extractor"
    [] entry = "Rasterize" -> "rasterizer"
    [] entry \in {"Zero:v_xy", "Zero:v_conic", "Zero:v_colors", "Zero:v_opacity"}
         -> "accumulator zeroing"
    [] entry = "RasterizeBackwards" -> "rasterizer backward"
    [] entry = "ProjectBackwards" -> "projector backward"

StageOrder ==
  << "projector", "prefix sum", "scan-total readback", "intersection mapper",
     "radix sort", "tile-bin zeroing", "tile-range extractor", "rasterizer",
     "accumulator zeroing", "rasterizer backward", "projector backward" >>

\* the GPU work issued so far, reservations and slicing left out
Dispatches == SelectSeq(log, LAMBDA e : e \in DOMAIN Bindings)

\* position of the stage of a log entry in the order above
StageRank(entry) == CHOOSE n \in DOMAIN StageOrder : StageOrder[n] = StageOf(entry)

\* every piece of work that writes one of the buffers is among the first
\* k - 1 pieces issued
WritersBefore(d, buffers, k) ==
  \A w \in DOMAIN Bindings :
    (Bindings[w].writes \cap buffers # {})
      => \E j \in 1..(k - 1) : d[j] = w

C27_StageOrder ==
  LET d == Dispatches
  IN  /\ \A k \in DOMAIN d :
           /\ k = 1 => StageRank(d[k]) = 1
           /\ k > 1 => StageRank(d[k]) \in {StageRank(d[k - 1]), StageRank(d[k - 1]) + 1}
           /\ WritersBefore(d, Bindings[d[k]].reads, k)
      /\ grads # <<>>
           => /\ d # <<>>
              /\ StageRank(d[Len(d)]) = Len(StageOrder)
              /\ WritersBefore(d, RegisteredBuffers, Len(d) + 1)

C27_Witness ==
  /\ pc = "bwd_done"
  /\ grads # <<>>
  /\ Len(Dispatches) = 14
  /\ StageRank(Dispatches[14]) = Len(StageOrder)
  /\ fwd.num_intersects >= 2

\* C28: the accumulators v_xy, v_conic, v_colors and v_opacity are zero
\* when the first pixel thread adds to them, and for every order of the
\* atomic adds no contribution is lost or counted twice: at any moment an
\* accumulator holds the contributions added so far, and when all threads
\* have finished it holds the contributions of all pixels to its splat.
Accumulators == <<bwd.v_xy, bwd.v_conic, bwd.v_colors, bwd.v_opacity>>

ContributionsTo(g) ==
  Contributions(state, splats, bwd_img_size(state.cam),
                raster_dispatch(state.cam), raster.oob, g)

SplatOf(c) == state.gaussian_ids_sorted.data[c[3] + 1]

C28_AtomicAccumulation ==
  /\ pc = "bwd_rasterizing"
       => \A a \in 1..4 :
            /\ Len(Accumulators[a].data) = bwd.num_points
            /\ \A i \in 1..bwd.num_points :
                 Accumulators[a].data[i]
                   + Cardinality({ c \in raster.pending : SplatOf(c) = i - 1 })
                   = Cardinality(ContributionsTo(i - 1))
  /\ pc = "bwd_rasterized"
       => \A a \in 1..4 :
            \A i \in 1..bwd.num_points :
              Accumulators[a].data[i] = Cardinality(ContributionsTo(i - 1))

\* two threads have added to the same splat and a third add is outstanding
C28_Witness ==
  /\ pc = "bwd_rasterizing"
  /\ fresh = NOISE
  /\ \E i \in 1..bwd.num_points :
       /\ bwd.v_xy.data[i] >= 2
       /\ \E c \in raster.pending : SplatOf(c) = i - 1
       /\ \E c1, c2 \in ContributionsTo(i - 1) \ raster.pending :
            <<c1[1], c1[2]>> # <<c2[1], c2[2]>>

\* C29: every index into the intersection arrays is below num_intersects:
\* the offsets the mapper writes at, the thread indices of the sorter and of
\* the tile-range extractor, every tile bin start and end (end at most
\* num_intersects) and every final_index of a pixel; and every splat id in
\* the sorted id array is below N.  A value that starts an empty walk (a
\* start equal to its end, a final_index of 0 when no record exists) counts
\* as in bounds.
MapperOffsetsInBounds ==
  Reached("mapped")
    => \A i \in 1..fwd.num_points :
         \A k \in 0..(MapCount(fwd, fwd.tile_bounds, i) - 1) :
           WriteOffset(fwd.cum_tiles_hit.data, i) + k < fwd.num_intersects

SortedArraysInBounds ==
  Reached("sorted")
    => /\ Len(fwd.isect_ids_unsorted.data) = fwd.num_intersects
       /\ Len(fwd.gaussian_ids_unsorted.data) = fwd.num_intersects
       /\ Len(fwd.isect_ids_sorted.data) = fwd.num_intersects
       /\ Len(fwd.gaussian_ids_sorted.data) = fwd.num_intersects
       /\ \A j \in DOMAIN fwd.gaussian_ids_sorted.data :
            fwd.gaussian_ids_sorted.data[j] \in 0..(fwd.num_points - 1)

TileBinsInBounds ==
  Reached("binned")
    => \A t \in TileIds :
         /\ \A idx \in StartWriters(fwd.isect_ids_sorted.data, fwd.num_intersects, t)
                         \cup EndWriters(fwd.isect_ids_sorted.data, fwd.num_intersects, t) :
              idx + 1 \in DOMAIN fwd.isect_ids_sorted.data
         /\ BinStart(fwd.tile_bins, t) <= BinEnd(fwd.tile_bins, t)
         /\ BinEnd(fwd.tile_bins, t) <= fwd.num_intersects

FinalIndexInBounds(p) ==
  \/ fwd.final_index.data[PixelElem(p)] < fwd.num_intersects
  \/ fwd.num_intersects = 0 /\ fwd.final_index.data[PixelElem(p)] = 0

C29_IndicesInBounds ==
  /\ MapperOffsetsInBounds
  /\ SortedArraysInBounds
  /\ TileBinsInBounds
  /\ Reached("rasterized") => \A p \in Pixels : FinalIndexInBounds(p)

\* the same with final_index looked at only where a rasteriser thread ran
IndicesInBoundsWhereDispatched ==
  /\ MapperOffsetsInBounds
  /\ SortedArraysInBounds
  /\ TileBinsInBounds
  /\ Reached("rasterized")
       => \A p \in Pixels : Dispatched(p) => FinalIndexInBounds(p)

\* C30: after the tile-range extractor every tile that no intersection
\* record belongs to has the empty range start = end = 0, whatever the
\* reserved tile_bins buffer contained: tile_bins is cleared before the
\* extractor runs, and the extractor writes the entries of tiles that
\* occur in the sorted keys only.
TileOccurs(t) ==
  \E j \in DOMAIN fwd.isect_ids_sorted.data :
    KeyTile(fwd.isect_ids_sorted.data[j]) = t

C30_EmptyTilesZero ==
  Reached("binned")
    => /\ IndexIn(log, "create:tile_bins") < IndexIn(log, "Zero:tile_bins")
       /\ IndexIn(log, "Zero:tile_bins") < IndexIn(log, "GetTileBinEdges")
       /\ \A t \in TileIds :
            IF TileOccurs(t)
            THEN BinStart(fwd.tile_bins, t) < BinEnd(fwd.tile_bins, t)
            ELSE /\ BinStart(fwd.tile_bins, t) = 0
                 /\ BinEnd(fwd.tile_bins, t) = 0
                 /\ StartWriters(fwd.isect_ids_sorted.data, fwd.num_intersects, t) = {}
                 /\ EndWriters(fwd.isect_ids_sorted.data, fwd.num_intersects, t) = {}

\* the buffer held noise, the last tile and one more are empty and an
\* earlier tile holds two records
C30_Witness ==
  /\ pc = "binned"
  /\ fresh = NOISE
  /\ \E t1, t2, t3 \in TileIds :
       /\ t1 < t2 /\ t2 < t3
       /\ t3 = Cardinality(TileIds) - 1
       /\ BinEnd(fwd.tile_bins, t1) - BinStart(fwd.tile_bins, t1) >= 2
       /\ ~TileOccurs(t2) /\ ~TileOccurs(t3)

\* C31: a forward call with N >= 1 splats that are all culled completes:
\* num_intersects is 0, the intersection buffers have size 0, the mapper,
\* the sort and the tile-range extractor touch no element, every tile bin
\* is empty and every pixel of the image equals the background colour.
AllCulled ==
  /\ fwd.num_points >= 1
  /\ Reached("scanned")
  /\ \A i \in DOMAIN fwd.num_tiles_hit.data : fwd.num_tiles_hit.data[i] = 0

NoIntersectionWork ==
  /\ Reached("sized") => fwd.num_intersects = 0
  /\ pc \notin {"dim_panic", "readback_panic"}
  /\ Reached("mapped")
       => /\ fwd.isect_ids_unsorted.data = <<>>
          /\ fwd.gaussian_ids_unsorted.data = <<>>
          /\ \A i \in 1..fwd.num_points : SlotsOf(i) = {}
          /\ calc_cube_count(<<fwd.num_intersects, 1, 1>>, <<THREADS_PER_GROUP, 1, 1>>)[1] = 0
  /\ Reached("sorted")
       => fwd.isect_ids_sorted.data = <<>> /\ fwd.gaussian_ids_sorted.data = <<>>
  /\ Reached("binned")
       => \A t \in TileIds :
            /\ StartWriters(fwd.isect_ids_sorted.data, fwd.num_intersects, t) = {}
            /\ EndWriters(fwd.isect_ids_sorted.data, fwd.num_intersects, t) = {}
            /\ BinStart(fwd.tile_bins, t) = BinEnd(fwd.tile_bins, t)

C31_AllCulledBackground ==
  AllCulled
    => /\ NoIntersectionWork
       /\ Reached("rasterized")
            => \A p \in Pixels : fwd.out_img.data[PixelElem(p)] = BackgroundColour

\* the same with the image looked at only where a rasteriser thread ran
AllCulledBackgroundWhereDispatched ==
  AllCulled
    => /\ NoIntersectionWork
       /\ Reached("rasterized")
            => \A p \in Pixels :
                 Dispatched(p) => fwd.out_img.data[PixelElem(p)] = BackgroundColour

\* a culled call has come to its end
AllCulledReturns == AllCulled /\ pc = "returned" /\ fresh = NOISE /\ background # 0

\* C32: after the forward rasteriser the final_index recorded for a pixel
\* lies inside the bin range of the tile that contains the pixel,
\* bin_start <= final_index <= bin_end, so that the reverse walk of the
\* backward pass visits records of the pixel's own tile only.
FinalIndexInsideBin(p) ==
  \E oob \in OobModes :
    /\ PixelBin(p, oob).start <= fwd.final_index.data[PixelElem(p)]
    /\ fwd.final_index.data[PixelElem(p)] <= PixelBin(p, oob).end

\* the records the backward thread of pixel p visits
Visited(p, oob) ==
  LET walk == BackwardWalk(state, bwd_img_size(state.cam), p[1], p[2], oob)
  IN  { idx \in 0..(Len(fwd.isect_ids_sorted.data) - 1) :
          walk.start <= idx /\ idx <= walk.fin /\ idx < walk.end }

WalkStaysInTile(p) ==
  \E oob \in OobModes :
    \A idx \in Visited(p, oob) :
      KeyTile(fwd.isect_ids_sorted.data[idx + 1])
        = PixelTile(img_size(camera), p[1], p[2])

C32_FinalIndexInsideBin ==
  /\ Reached("rasterized") => \A p \in Pixels : FinalIndexInsideBin(p)
  /\ (state.kept /\ Reached("bwd_rasterized"))
       => \A p \in Pixels : WalkStaysInTile(p)

\* the same for the pixels a rasteriser thread ran for, the walk on cameras
\* with width = height
FinalIndexInsideBinWhereDispatched ==
  /\ Reached("rasterized")
       => \A p \in Pixels : Dispatched(p) => FinalIndexInsideBin(p)
  /\ (state.kept /\ Reached("bwd_rasterized") /\ camera.width = camera.height)
       => \A p \in Pixels : WalkStaysInTile(p)

\* C33: the image and the Aux record (tile_bins, num_intersects) a forward
\* call returns are those of the forward steps applied to the inputs,
\* whether the inputs are tracked or untracked; the paths differ only in
\* that the tracked one checkpoints the five inputs and keeps the backward
\* state while the untracked one checkpoints nothing and keeps no state.
ReturnedOf(oob) ==
  LET r == RenderOf(splats, oob)
  IN  [out_img |-> r.out_img, tile_bins |-> r.tile_bins,
       num_intersects |-> r.num_intersects]

Returned ==
  [out_img |-> fwd.out_img, tile_bins |-> aux.tile_bins,
   num_intersects |-> aux.num_intersects]

C33_TrackedUntrackedSame ==
  pc = "returned"
    => /\ \E oob \in OobModes : Returned = ReturnedOf(oob)
       /\ prep_nodes = "Tracked"
            => /\ state.kept
               /\ Len(ckpt.taken) = 5
               /\ state.out_img = fwd.out_img
       /\ prep_nodes = "UnTracked"
            => state = NoState /\ ckpt.taken = <<>>

\* an untracked call has returned an image that shows a splat
C33_Witness ==
  /\ pc = "returned"
  /\ prep_nodes = "UnTracked"
  /\ aux.num_intersects >= 2
  /\ \E p \in Pixels :
       Dispatched(p) /\ fwd.out_img.data[PixelElem(p)] # BackgroundColour

\* C34: load_splat_from_ply on a PLY whose vertex element has count 0, or
\* that has no vertex element, ends the stream with an error value and
\* yields no Splats; it does not panic.
NoVertices == loader.pc # "idle" /\ (~loader.vertex \/ loader.count = 0)

C34_EmptyPlyIsAnError ==
  NoVertices
    => /\ loader.pc # "panic_divide_by_zero"
       /\ loader.pc # "done"
       /\ loader.yielded = <<>>
       /\ loader.pc \notin {"header", "reading"}
            => loader.pc \in {"err_missing_properties", "err_no_splats"}

\* what holds of such a file: nothing is yielded
EmptyPlyYieldsNothing ==
  NoVertices => (loader.pc # "done" /\ loader.yielded = <<>>)

\* such a file never gets as far as the 'No splats found' error
EmptyPlyNeverReportsNoSplats == NoVertices => loader.pc # "err_no_splats"

\* C35: after receive_messages has processed any sequence of process
\* messages, loading() is true exactly when a StartLoading has been
\* processed with no DoneLoading processed after it, and training() is the
\* training flag of the most recent StartLoading, false if there has been
\* none since the last connect_to; no other message changes either flag.
\* The messages are those processed since the last connect_to.
StartLoadings == { i \in DOMAIN app.processed : app.processed[i].kind = "StartLoading" }

LastStartLoading == CHOOSE i \in StartLoadings : \A j \in StartLoadings : j <= i

C35_LoadingFlags ==
  app.pc = "running"
    => /\ app.context.loading
            <=> \E i \in StartLoadings :
                  \A j \in DOMAIN app.processed :
                    j > i => app.processed[j].kind # "DoneLoading"
       /\ app.context.training
            = IF StartLoadings = {} THEN FALSE
              ELSE app.processed[LastStartLoading].training

\* a training load has ended, another message has come after it, and the
\* closing DoneLoading carried another flag than the StartLoading
C35_Witness ==
  /\ app.pc = "running"
  /\ app.connects = 2
  /\ Len(app.processed) = 3
  /\ app.processed[1] = [kind |-> "StartLoading", training |-> TRUE]
  /\ app.processed[2] = [kind |-> "DoneLoading", training |-> FALSE]
  /\ app.processed[3].kind = "TrainStep"
  /\ app.context.training /\ ~app.context.loading

\* C36: over the lifetime of an App, whatever number of Dataset messages
\* arrive, also across several connect_to calls, at most one DatasetPanel
\* pane is inserted into the tile tree, and App.datasets is Some from the
\* first Dataset message on.
C36_OneDatasetPanel ==
  app.pc = "running"
    => /\ app.inserted <= 1
       /\ app.dataset_messages >= 1 <=> app.datasets # 0
       /\ app.dataset_messages >= 1 <=> app.inserted = 1

\* Dataset messages of two processes have been processed, two of them in
\* one call of receive_messages
C36_Witness ==
  /\ app.pc = "running"
  /\ app.connects = 2
  /\ app.dataset_messages = 3
  /\ Len(app.processed) = 2
  /\ app.inserted = 1

\* C37: connect_to resets the context and the view: afterwards loading and
\* training are false, the dataset is empty, view_aspect is None, the model
\* transform is the identity and running_process is the new process, while
\* device, egui context and cam_settings keep the values they had before
\* the call.
ConnectToCalled == app.pc = "running" /\ app'.connects = app.connects + 1

C37_ConnectToResets ==
  [][ConnectToCalled
       => /\ ~app'.context.loading /\ ~app'.context.training
          /\ app'.context.dataset = "empty"
          /\ app'.context.view_aspect = "None"
          /\ app'.context.model_local_to_world = "IDENTITY"
          /\ app'.context.running_process = app'.connects
          /\ app'.context.running_process # app.context.running_process
          /\ app'.context.device = app.context.device
          /\ app'.context.ctx = app.context.ctx
          /\ app'.context.cam_settings = app.context.cam_settings]_vars

\* a second process has been connected while the first was loading for
\* training, with a dataset, a focused view, a turned model and camera
\* settings that are not the initial ones: all that is gone or kept
C37_Witness ==
  /\ app.pc = "running"
  /\ app.connects = 2
  /\ app.context.running_process = 2
  /\ app.context.cam_settings = "from_settings_panel"
  /\ app.context.dataset = "empty"
  /\ app.context.view_aspect = "None"
  /\ app.context.model_local_to_world = "IDENTITY"
  /\ ~app.context.loading /\ ~app.context.training
  /\ app.processed = <<>>
  /\ app.sent >= 1

\* C38: in train-2d, for every interleaving of the training task and the
\* UI thread over the bounded channel, the TrainStep messages received by
\* the UI carry the iters 1, 2, 3, ... in increasing order without gap or
\* repeat, after each App::update last_step holds the received step of
\* greatest iter, and once the receiver is dropped the training task
\* leaves its loop at its next send.
C38_TrainStepsInOrder ==
  train.pc = "running"
    => /\ \A i \in DOMAIN train.received : train.received[i] = i
       /\ Len(train.channel) <= channel_capacity
       /\ train.last_step = Len(train.received)
       /\ train.dropped
            => /\ train.sent = train.at_drop.sent
               /\ train.iter <= train.at_drop.iter + 1
               /\ train.task = "stepping" => train.iter = train.at_drop.iter
       /\ train.task = "exited" => train.dropped

\* the channel was full while the task had a further step to send, the UI
\* then took two steps in one update, and the task has left its loop after
\* the receiver was dropped
C38_Witness ==
  /\ train.pc = "running"
  /\ train.task = "exited"
  /\ train.last_step >= 3
  /\ train.sent >= train.last_step + channel_capacity
  /\ train.iter = train.sent + 1

\* C39: calc_cube_count returns, for each of the three dimensions, the
\* smallest workgroup count c with c * workgroup_size >= size, so that
\* every element index below size is covered by a thread and fewer than
\* workgroup_size threads are surplus; a missing dimension counts as size
\* 1, and size 0 gives count 0.
SizeOfDimension(k) == IF k \in DOMAIN cube.sizes THEN cube.sizes[k] ELSE 1

C39_SmallestCoveringCount ==
  cube.pc = "returned"
    => /\ Len(cube.count) = 3
       /\ \A k \in 1..3 :
            LET c == cube.count[k]
                w == cube.workgroup_size[k]
                size == SizeOfDimension(k)
            IN  /\ c \in Nat
                /\ c * w >= size
                /\ \A d \in 0..(c - 1) : d * w < size
                /\ c * w - size < w
                /\ size = 0 => c = 0

\* a call with a size of 0, a size its workgroup extent does not divide
\* and a missing third dimension
C39_Witness ==
  /\ cube.pc = "returned"
  /\ cube.sizes = <<0, 5>>
  /\ cube.workgroup_size = <<2, 2, 3>>
  /\ cube.count = <<0, 3, 1>>
====
